---- MODULE Spec2Model ----
(***************************************************************************)
(* Verification model of the majak build engine:                           *)
(*   - the planner (Plan), the pools and the build loop (Builder::Build)   *)
(*     of src/src/lib/build.cc and src/src/lib/state.cc;                   *)
(*   - the persistent log (BuildLog) of src/src/lib/build_log.cc.          *)
(***************************************************************************)
EXTENDS Integers, Sequences, FiniteSets, TLC

VARIABLES
  \* ---- build graph after the dirty scan ----
  g,                \* index of the manifest (graph) being built
  edges_,           \* State::edges_: the edges of the manifest
  in_edge_,         \* Node::in_edge_ (0 when the node has no producer)
  out_edges_,       \* Node::out_edges_
  last_out,         \* the last call of State::AddOut and what it returned
  cleanup,          \* the last call of Builder::Cleanup: the edges the runner
                    \* reported active, what Stat returned for their
                    \* outputs and the files RemoveFile was called for
  path_dead,        \* the last call of NinjaMain::IsPathDead: the path, what
                    \* Stat returned for it and the answer
  last_node,        \* the last call of State::GetNode or State::LookupNode
                    \* and whether it found a node
  pm,               \* PathManager: its base directory, paths_ and
                    \* path_index_, and the last call made with its paths
  main,             \* the front end: which one runs, the cycle of its
                    \* manifest loop, and its exit status and message
  parse,            \* ManifestParser: its options, the fields of the edges
                    \* it sets, and the last build statement and its result
  addr,             \* address order of the Edge objects (Edge* comparisons)
  dirty_,           \* Node::dirty_
  outputs_ready_,   \* Edge::outputs_ready_
  deps_missing_,    \* edges with Edge::deps_missing_ set
  todo,             \* targets of the command line not yet added to the plan
  \* ---- Plan ----
  want_, wanted_edges_, command_edges_, ready_,
  \* ---- Pool ----
  current_use_, delayed_,
  delay_order,      \* history: the edges passed to Pool::DelayEdge, in order
  \* ---- Builder::Build ----
  config_,          \* BuildConfig
  pc,               \* "plan" | "build" | "done"
  pending_commands, failures_allowed,
  running_, finished_,      \* SubprocessSet / DryRunCommandRunner queue
  build_result,     \* "none" | "true" | "false"
  err,              \* error text of Build
  \* ---- history of the run (observation only) ----
  started,          \* sequence of edges handed out by FindWork, in order
  active,           \* edges handed out and not yet passed to EdgeFinished
  reaped,           \* edge -> status with which its command was reaped
  recorded,         \* edges passed to RecordCommand / RecordDeps
  last_finish,      \* when the last FinishCommand found outputs unchanged:
                    \* its edge, those outputs and the verdicts of the scan
  disk,             \* the files Builder wrote and removed through its
                    \* DiskInterface: pairs of the call and the path
  \* ---- BuildLog ----
  blog,             \* in-memory state of the BuildLog object in use
  file,             \* bytes of the log file (<<>> when empty), or NoFile
  ids,              \* Node::id_ by path, for the State in use
  hist,             \* per record of the file: its end offset and the
                    \* writer's in-memory state once it was written
  written,          \* in-memory state of the writer at its last Close
  damage,           \* "none" | "cut" | "foreign": what happened to the file
  cut,              \* offset up to which the file is what the writer wrote
  lpc,              \* "new" | "write" | "closed" | "loaded"
  nops,             \* number of Record* calls made so far
  loads,            \* number of Load calls made so far
  load_ret, load_err,
  user,             \* BuildLogUser: the paths it reports dead and the nodes
                    \* whose producing edge has a deps binding
  before            \* the log and the size of the file before the last
                    \* recompaction, and the number of recompactions

buildVars == << g, main, parse, last_node, path_dead, pm, cleanup, edges_, in_edge_, out_edges_, last_out, addr, dirty_, outputs_ready_, deps_missing_, todo, want_, wanted_edges_,
                command_edges_, ready_, current_use_, delayed_, delay_order, config_, pc,
                pending_commands, failures_allowed, running_, finished_,
                build_result, err, started, active, reaped, recorded,
                last_finish, disk >>
logVars == << blog, file, ids, hist, written, damage, cut, lpc, nops, loads, load_ret,
             load_err, user, before >>
vars == << buildVars, logVars >>

(***************************************************************************)
(* Bounds of the model.                                                    *)
(***************************************************************************)
MaxParallelism == 2
MaxFailures == 2
MaxOps == 2
MaxLoads == 2

INT_MAX == 2147483647

(***************************************************************************)
(* Generic helpers.                                                        *)
(***************************************************************************)
Range(s) == { s[i] : i \in DOMAIN s }

Restrict(f, S) == [ x \in S |-> f[x] ]

RECURSIVE SumOver(_, _)
SumOver(f, S) ==
  IF S = {} THEN 0
  ELSE LET x == CHOOSE y \in S : TRUE IN f[x] + SumOver(f, S \ {x})

(***************************************************************************)
(* The manifests.  Edges are numbered 1..n; nodes are path strings.        *)
(* ins/outs are Edge::inputs_ / Edge::outputs_, oo is order_only_deps_,    *)
(* the trailing oo entries of ins being the order-only inputs.  targets is *)
(* the set of nodes the command line may name, missing the leaves that may *)
(* be absent from disk, clean the sets of edges the scan may find clean,   *)
(* rspfile the edges whose rule has an rspfile binding.                    *)
(***************************************************************************)
Pools == { "", "console", "p" }

\* State::State creates the default pool (depth 0) and "console" (depth 1);
\* pool p is declared by the manifests below with depth 2.
depth_ == [ q \in Pools |-> IF q = "" THEN 0 ELSE IF q = "console" THEN 1 ELSE 2 ]

\* Five independent commands in pool p and one outside it, gathered by a
\* phony edge.
GraphPool ==
  [ n |-> 7,
    ins |-> << <<"i1">>, <<"i2">>, <<"i3">>, <<"i4">>, <<"i5">>, <<"i6">>,
               <<"o1", "o2", "o3", "o4", "o5", "o6">> >>,
    outs |-> << <<"o1">>, <<"o2">>, <<"o3">>, <<"o4">>, <<"o5">>, <<"o6">>,
                <<"all">> >>,
    oo |-> << 0, 0, 0, 0, 0, 0, 0 >>,
    phony |-> { 7 },
    pool |-> << "p", "p", "p", "p", "p", "", "" >>,
    restat |-> {},
    rspfile |-> { 6 },
    deps |-> {},
    targets |-> { "all", "o1" },
    missing |-> { "i1" },
    clean |-> { {}, { 2 } } ]

\* A restat chain with a two-output edge and an order-only gate:
\*   build mid mid2: gen in      (restat)
\*   build out: cc mid || mid2   (deps)
\*   build fin: cat out mid2
\*   build side: cat in2 || out  (console pool)
GraphChain ==
  [ n |-> 4,
    ins |-> << <<"in">>, <<"mid", "mid2">>, <<"out", "mid2">>, <<"in2", "out">> >>,
    outs |-> << <<"mid", "mid2">>, <<"out">>, <<"fin">>, <<"side">> >>,
    oo |-> << 0, 1, 0, 1 >>,
    phony |-> {},
    pool |-> << "", "", "", "console" >>,
    restat |-> { 1, 2 },
    rspfile |-> { 3 },
    deps |-> { 2 },
    targets |-> { "fin", "side" },
    missing |-> { "in2" },
    clean |-> { {}, { 1 }, { 4 } } ]

\* Duplicated inputs, a shared order-only input and a phony alias:
\*   build a: cat src
\*   build b: cat a a || s
\*   build s: phony src
\*   build c: cat b || a s   (console pool)
GraphDup ==
  [ n |-> 4,
    ins |-> << <<"src">>, <<"a", "a", "s">>, <<"src">>, <<"b", "a", "s">> >>,
    outs |-> << <<"a">>, <<"b">>, <<"s">>, <<"c">> >>,
    oo |-> << 0, 1, 0, 2 >>,
    phony |-> { 3 },
    pool |-> << "", "console", "", "console" >>,
    restat |-> { 1 },
    rspfile |-> {},
    deps |-> {},
    targets |-> { "c", "b" },
    missing |-> { "src" },
    clean |-> { {}, { 3 }, { 2, 3 } } ]

\* One command whose output has a name that reads like a message:
\*   build interrupted$ by$ user: cc in
GraphNamed ==
  [ n |-> 1,
    ins |-> << <<"in">> >>,
    outs |-> << <<"interrupted by user">> >>,
    oo |-> << 0 >>,
    phony |-> {},
    pool |-> << "" >>,
    restat |-> {},
    rspfile |-> {},
    deps |-> {},
    targets |-> { "interrupted by user" },
    missing |-> {},
    clean |-> { {} } ]

Graphs == << GraphPool, GraphChain, GraphDup, GraphNamed >>

G == edges_
Edges == 1 .. G.n
EdgesOf(gr) == 1 .. gr.n
NodesOf(gr) ==
  UNION { Range(gr.ins[e]) \cup Range(gr.outs[e]) : e \in EdgesOf(gr) }
Nodes == NodesOf(G)

\* Node::in_edge(): the edge that lists the node among its outputs, 0 if none.
in_edgeOf(gr, node) ==
  IF \E e \in EdgesOf(gr) : node \in Range(gr.outs[e])
  THEN CHOOSE e \in EdgesOf(gr) : node \in Range(gr.outs[e])
  ELSE 0
in_edge(node) == in_edge_[node]

\* Node::out_edges(): one entry per State::AddIn call, in manifest order.
RECURSIVE out_edgesFrom(_, _, _)
out_edgesFrom(gr, node, e) ==
  IF e > gr.n THEN << >>
  ELSE SelectSeq([ i \in 1 .. Len(gr.ins[e]) |->
                     IF gr.ins[e][i] = node THEN e ELSE 0 ],
                 LAMBDA x : x # 0)
       \o out_edgesFrom(gr, node, e + 1)
out_edges(node) == out_edges_[node]

is_phony(e) == e \in G.phony

(***************************************************************************)
(* State (src/src/lib/state.cc): the graph as AddEdge, AddIn and AddOut    *)
(* build it.  S holds edges_ and, for the nodes of paths_, in_edge_ and    *)
(* out_edges_.                                                             *)
(***************************************************************************)
NoCall == [ edge |-> 0, path |-> "", ret |-> TRUE ]

\* No front end has been started yet.
NoMain ==
  [ front |-> "none", dry_run |-> FALSE, cycle |-> 0, status |-> -1,
    msg |-> "" ]

\* No call of State::GetNode or State::LookupNode yet.
NoLookup == [ op |-> "none", path |-> "", found |-> FALSE ]

EmptyState ==
  [ edges_ |-> [ n |-> 0, ins |-> << >>, outs |-> << >>, oo |-> << >>,
                 phony |-> {}, pool |-> << >>, restat |-> {}, rspfile |-> {},
                 deps |-> {},
                 targets |-> {}, missing |-> {}, clean |-> { {} } ],
    in_edge_ |-> << >>,
    out_edges_ |-> << >> ]

\* State::AddEdge
AddEdge(S) ==
  [ S EXCEPT !.edges_.n = @ + 1,
             !.edges_.ins = Append(@, << >>),
             !.edges_.outs = Append(@, << >>),
             !.edges_.oo = Append(@, 0),
             !.edges_.pool = Append(@, "") ]

\* State::LookupNode: whether the State has a Node for the path.
LookupNode(S, path) == path \in DOMAIN S.in_edge_

\* GetNode that makes a new node whether or not the path has one.
GetNodeAlways(S, path) ==
  [ S EXCEPT !.in_edge_ = (path :> 0) @@ @,
             !.out_edges_ = (path :> << >>) @@ @ ]

\* State::GetNode: the node of the path, created when there is none.
GetNode(S, path) ==
  IF LookupNode(S, path) THEN S
  ELSE [ S EXCEPT !.in_edge_ = (path :> 0) @@ @,
                  !.out_edges_ = (path :> << >>) @@ @ ]

\* State::AddIn
AddIn(S, edge, path) ==
  LET S1 == GetNode(S, path) IN
  [ S1 EXCEPT !.edges_.ins[edge] = Append(@, path),
              !.out_edges_[path] = Append(@, edge) ]

\* AddOut without the test for a producing edge.
AddOutUnchecked(S, edge, path) ==
  LET S1 == GetNode(S, path) IN
  [ S |-> [ S1 EXCEPT !.edges_.outs[edge] = Append(@, path),
                      !.in_edge_[path] = edge ],
    ret |-> TRUE ]

\* State::AddOut: the State afterwards and the value returned.
AddOut(S, edge, path) ==
  LET S1 == GetNode(S, path) IN
  IF S1.in_edge_[path] # 0
  THEN [ S |-> S1, ret |-> FALSE ]
  ELSE [ S |-> [ S1 EXCEPT !.edges_.outs[edge] = Append(@, path),
                           !.in_edge_[path] = edge ],
         ret |-> TRUE ]

(***************************************************************************)
(* ManifestParser (src/src/lib/manifest_parser.cc): a build statement as   *)
(* ParseEdge has it after lexing, with its paths evaluated:                *)
(*   outs, implicit_outs   the outputs and how many of the last are        *)
(*                         implicit;                                       *)
(*   ins, implicit, order_only   the inputs and the sizes of the last two  *)
(*                         ranges;                                         *)
(*   rule_name, pool_name, deps_type   the rule and the bindings "pool"    *)
(*                         and "deps" of the edge.                         *)
(* P holds what the parser sets on the edges beyond State: implicit_outs_  *)
(* and implicit_deps_ (order_only_deps_ is edges_.oo).                     *)
(***************************************************************************)
kDupeEdgeActionWarn == "kDupeEdgeActionWarn"
kDupeEdgeActionError == "kDupeEdgeActionError"
kPhonyCycleActionWarn == "kPhonyCycleActionWarn"
kPhonyCycleActionError == "kPhonyCycleActionError"

\* BindingEnv::LookupRule: "phony" is the rule of State::State, "cc" a rule
\* the manifest declared.
LookupRule(rule_name) == rule_name \in { "phony", "cc" }

\* State::LookupPool: the pools of State::State.
LookupPool(pool_name) == pool_name \in { "", "console" }

\* CanonicalizePath fails on the empty path only.
CanonicalizePathOk(path) == path # ""

NoEdgeFields == [ implicit_outs_ |-> << >>, implicit_deps_ |-> << >> ]

\* pop_back that leaves the edge in place.
PopBackNone(S) == S

\* std::vector::pop_back on State::edges_.
PopBack(S) ==
  [ S EXCEPT !.edges_.n = @ - 1,
             !.edges_.ins = SubSeq(@, 1, Len(@) - 1),
             !.edges_.outs = SubSeq(@, 1, Len(@) - 1),
             !.edges_.oo = SubSeq(@, 1, Len(@) - 1),
             !.edges_.pool = SubSeq(@, 1, Len(@) - 1),
             !.edges_.phony = @ \ { S.edges_.n },
             !.edges_.deps = @ \ { S.edges_.n } ]

\* The loop over outs with the test for an implicit output off by one.
RECURSIVE AddOutsOffByOne(_, _, _, _, _, _, _)
AddOutsOffByOne(S, edge, outs, i, implicit_outs, dups, options) ==
  IF i = Len(outs) THEN
    [ S |-> S, implicit_outs |-> implicit_outs, dups |-> dups, err |-> "" ]
  ELSE
    LET path == outs[i + 1] IN
    IF ~CanonicalizePathOk(path) THEN
      [ S |-> S, implicit_outs |-> implicit_outs, dups |-> dups,
        err |-> "empty path" ]
    ELSE
      LET r == AddOut(S, edge, path) IN
      IF ~r.ret THEN
        IF options.dupe_edge_action_ = kDupeEdgeActionError THEN
          [ S |-> r.S, implicit_outs |-> implicit_outs, dups |-> dups,
            err |-> "multiple rules generate " \o path
                      \o " [-w dupbuild=err]" ]
        ELSE
          AddOutsOffByOne(r.S, edge, outs, i + 1,
                          IF Len(outs) - i < implicit_outs
                          THEN implicit_outs - 1 ELSE implicit_outs,
                          dups \cup { i + 1 }, options)
      ELSE AddOutsOffByOne(r.S, edge, outs, i + 1, implicit_outs, dups,
                           options)

\* The loop of ParseEdge over outs, from index i (0-based, as in the code):
\* the State, implicit_outs and the outputs found duplicated afterwards, or
\* the error.
RECURSIVE AddOuts(_, _, _, _, _, _, _)
AddOuts(S, edge, outs, i, implicit_outs, dups, options) ==
  IF i = Len(outs) THEN
    [ S |-> S, implicit_outs |-> implicit_outs, dups |-> dups, err |-> "" ]
  ELSE
    LET path == outs[i + 1] IN
    IF ~CanonicalizePathOk(path) THEN
      [ S |-> S, implicit_outs |-> implicit_outs, dups |-> dups,
        err |-> "empty path" ]
    ELSE
      LET r == AddOut(S, edge, path) IN
      IF ~r.ret THEN
        IF options.dupe_edge_action_ = kDupeEdgeActionError THEN
          [ S |-> r.S, implicit_outs |-> implicit_outs, dups |-> dups,
            err |-> "multiple rules generate " \o path
                      \o " [-w dupbuild=err]" ]
        ELSE
          AddOuts(r.S, edge, outs, i + 1,
                  IF Len(outs) - i <= implicit_outs
                  THEN implicit_outs - 1 ELSE implicit_outs,
                  dups \cup { i + 1 }, options)
      ELSE AddOuts(r.S, edge, outs, i + 1, implicit_outs, dups, options)

\* The loop of ParseEdge over ins.
RECURSIVE AddIns(_, _, _, _)
AddIns(S, edge, ins, i) ==
  IF i = Len(ins) THEN [ S |-> S, err |-> "" ]
  ELSE IF ~CanonicalizePathOk(ins[i + 1]) THEN
    [ S |-> S, err |-> "empty path" ]
  ELSE AddIns(AddIn(S, edge, ins[i + 1]), edge, ins, i + 1)

\* Edge::maybe_phonycycle_diagnostic: the statements of the form
\* "build a: phony ... a ..." are the ones the option is about.
maybe_phonycycle_diagnostic(S, P, edge) ==
  /\ edge \in S.edges_.phony
  /\ Len(S.edges_.outs[edge]) = 1
  /\ P.implicit_outs_[edge] = 0
  /\ P.implicit_deps_[edge] = 0

\* std::remove and erase on Edge::inputs_.
RemoveInput(inputs, out) == SelectSeq(inputs, LAMBDA x : x # out)

\* The end of ParseEdge without the filter of self-referencing inputs.
FinishEdgeUnfiltered(S, P, edge, stmt, options) ==
  [ S |-> S, P |-> P, edge |-> edge, filtered |-> FALSE,
    ret |-> ~(stmt.deps_type # "" /\ Len(S.edges_.outs[edge]) > 1),
    err |-> IF stmt.deps_type # "" /\ Len(S.edges_.outs[edge]) > 1
            THEN "multiple outputs aren't (yet?) supported by depslog"
            ELSE "" ]

\* The end of ParseEdge, once the inputs are connected: the filter of a
\* self-referencing phony edge and the test of the deps binding.
FinishEdge(S, P, edge, stmt, options) ==
  LET filter == /\ options.phony_cycle_action_ = kPhonyCycleActionWarn
                /\ maybe_phonycycle_diagnostic(S, P, edge)
      out == S.edges_.outs[edge][1]
      S1 == IF filter
            THEN [ S EXCEPT !.edges_.ins[edge] = RemoveInput(@, out) ]
            ELSE S
      multi == stmt.deps_type # "" /\ Len(S1.edges_.outs[edge]) > 1
  IN [ S |-> S1, P |-> P, edge |-> edge,
       filtered |-> filter /\ S1.edges_.ins[edge] # S.edges_.ins[edge],
       ret |-> ~multi,
       err |-> IF multi
               THEN "multiple outputs aren't (yet?) supported by depslog"
               ELSE "" ]

\* ManifestParser::ParseEdge from the point where the statement is lexed:
\* the State and the edge fields afterwards, the edge made (0 when none is
\* kept), the value returned and the error.
ParseEdge(S, P, stmt, options) ==
  LET Fail(S1, P1, msg) ==
        [ S |-> S1, P |-> P1, edge |-> 0, filtered |-> FALSE,
          ret |-> FALSE, err |-> msg ]
  IN
  IF stmt.outs = << >> THEN Fail(S, P, "expected path")
  ELSE IF ~LookupRule(stmt.rule_name) THEN
    Fail(S, P, "unknown build rule '" \o stmt.rule_name \o "'")
  ELSE
    LET edge == S.edges_.n + 1
        S0 == AddEdge(S)
        S1 == [ S0 EXCEPT
                  !.edges_.phony = IF stmt.rule_name = "phony"
                                   THEN @ \cup { edge } ELSE @,
                  !.edges_.deps = IF stmt.deps_type # ""
                                  THEN @ \cup { edge } ELSE @ ]
        P1 == [ implicit_outs_ |-> Append(P.implicit_outs_, 0),
                implicit_deps_ |-> Append(P.implicit_deps_, 0) ]
    IN
    IF stmt.pool_name # "" /\ ~LookupPool(stmt.pool_name) THEN
      Fail(S1, P1, "unknown pool name '" \o stmt.pool_name \o "'")
    ELSE
      LET S2 == [ S1 EXCEPT !.edges_.pool[edge] = stmt.pool_name ]
          o == AddOuts(S2, edge, stmt.outs, 0, stmt.implicit_outs, {},
                       options)
      IN
      IF o.err # "" THEN Fail(o.S, P1, o.err)
      ELSE IF o.S.edges_.outs[edge] = << >> THEN
        [ S |-> PopBack(o.S), P |-> P, edge |-> 0, filtered |-> FALSE,
          ret |-> TRUE, err |-> "" ]
      ELSE
        LET P2 == [ P1 EXCEPT !.implicit_outs_[edge] = o.implicit_outs ]
            i == AddIns(o.S, edge, stmt.ins, 0)
        IN
        IF i.err # "" THEN Fail(i.S, P2, i.err)
        ELSE
          FinishEdge([ i.S EXCEPT !.edges_.oo[edge] = stmt.order_only ],
                     [ P2 EXCEPT !.implicit_deps_[edge] = stmt.implicit ],
                     edge, stmt, options)

\* The messages of the errors Lexer::ReadEvalString reports.
LexerErrors ==
  { "unexpected EOF", "bad $-escape (literal $ must be written as $$)" }

\* The loops of ParseEdge that call Lexer::ReadPath.
PathSections == { "outs", "implicit_outs", "ins", "implicit", "order_only" }

\* A failure of Lexer::ReadPath: the loop that made the call, the text of the
\* path that was read before the offending character, and the message.  The
\* lexer's position stays at the start of that text.
NoLexError == [ at |-> "none", text |-> "", msg |-> "" ]
LexFailures == [ at : PathSections, text : { "", "b" }, msg : LexerErrors ]

\* Lexer::TokenName
TokenName(t) ==
  CASE t = "ERROR" -> "lexing error"
    [] t = "EQUALS" -> "'='"
    [] t = "IDENT" -> "identifier"
    [] t = "TEOF" -> "eof"

\* Lexer::ReadToken from the start of the path whose reading failed: the
\* tokens that text and the offending character lex to.
TokensAt(lex) ==
  LET last == IF lex.msg = "unexpected EOF" THEN "TEOF" ELSE "ERROR"
  IN IF lex.text = "" THEN << last >> ELSE << "IDENT", last >>

\* ManifestParser::ParseLet on the tokens that follow its identifier.
ParseLet(tokens) ==
  IF tokens[1] # "EQUALS"
  THEN [ ret |-> FALSE,
         err |-> "expected " \o TokenName("EQUALS") \o ", got "
                   \o TokenName(tokens[1]) ]
  ELSE [ ret |-> TRUE, err |-> "" ]

\* ManifestParser::Parse from the token after a statement, given the error
\* left by that statement: the value it returns and the error.
Parse(tokens, msg) ==
  CASE tokens[1] = "TEOF" -> [ ret |-> TRUE, err |-> msg ]
    [] tokens[1] = "ERROR" -> [ ret |-> FALSE, err |-> "lexing error" ]
    [] tokens[1] = "IDENT" -> ParseLet(Tail(tokens))

\* ManifestParser::ParseEdge with the lexing of the paths: lex tells in which
\* loop ReadPath fails, stmt holds what was read before.
ParseEdgeLexed(S, P, stmt, options, lex) ==
  LET Stop(ret, msg) ==
        [ S |-> S, P |-> P, edge |-> 0, filtered |-> FALSE,
          ret |-> ret, err |-> msg ]
  IN
  IF lex.at = "outs" THEN Stop(FALSE, lex.msg)
  ELSE IF lex.at = "implicit_outs" THEN Stop(TRUE, lex.msg)
  ELSE IF lex.at = "none" THEN ParseEdge(S, P, stmt, options)
  ELSE IF stmt.outs = << >> THEN Stop(FALSE, "expected path")
  ELSE IF ~LookupRule(stmt.rule_name) THEN
    Stop(FALSE, "unknown build rule '" \o stmt.rule_name \o "'")
  ELSE IF lex.at = "ins" THEN Stop(FALSE, lex.msg)
  ELSE IF lex.at = "implicit" THEN Stop(TRUE, lex.msg)
  ELSE Stop(FALSE, lex.msg)

\* ManifestParserOptions and its default.
Options ==
  [ dupe_edge_action_ : { kDupeEdgeActionWarn, kDupeEdgeActionError },
    phony_cycle_action_ : { kPhonyCycleActionWarn, kPhonyCycleActionError } ]
DefaultOptions ==
  [ dupe_edge_action_ |-> kDupeEdgeActionWarn,
    phony_cycle_action_ |-> kPhonyCycleActionWarn ]

NoStatement ==
  [ outs |-> << >>, implicit_outs |-> 0, ins |-> << >>, implicit |-> 0,
    order_only |-> 0, rule_name |-> "", pool_name |-> "", deps_type |-> "" ]

\* A parser with the given options that has parsed no statement yet.
NoParseFor(options) ==
  [ options |-> options, P |-> NoEdgeFields, n |-> 0, stmt |-> NoStatement,
    tokens |-> 0,
    before |-> EmptyState, edge |-> 0, filtered |-> FALSE, ret |-> TRUE,
    err |-> "", lexed |-> NoLexError, returned |-> "none" ]
NoParse == NoParseFor(DefaultOptions)

\* Edge::weight()
weight(e) == 1

\* Edge::AllInputsReady(): every input that has a producing edge has it ready.
AllInputsReady(ps, e) ==
  \A i \in 1 .. Len(G.ins[e]) :
    LET ie == in_edge(G.ins[e][i]) IN ie = 0 \/ ps.outputs_ready_[ie]

(***************************************************************************)
(* Pool (src/src/lib/state.cc).  ps is the record of the mutable planner   *)
(* and pool state the operators below thread through.                      *)
(***************************************************************************)
PlanState ==
  [ want_ |-> want_, wanted_edges_ |-> wanted_edges_,
    command_edges_ |-> command_edges_, ready_ |-> ready_,
    current_use_ |-> current_use_, delayed_ |-> delayed_, delay_order |-> delay_order,
    outputs_ready_ |-> outputs_ready_, dirty_ |-> dirty_ ]

\* Pool::EdgeScheduled
EdgeScheduled(ps, e) ==
  LET q == G.pool[e] IN
  IF depth_[q] # 0
  THEN [ ps EXCEPT !.current_use_[q] = @ + weight(e) ]
  ELSE ps

\* Pool::EdgeFinished
PoolEdgeFinished(ps, e) ==
  LET q == G.pool[e] IN
  IF depth_[q] # 0
  THEN [ ps EXCEPT !.current_use_[q] = @ - weight(e) ]
  ELSE ps

\* Pool::ShouldDelayEdge: the pool is bounded and would exceed its depth.
ShouldDelayEdge(ps, q) ==
  depth_[q] # 0 /\ ps.current_use_[q] + 1 > depth_[q]

\* Pool::DelayEdge
DelayEdge(ps, e) ==
  [ ps EXCEPT !.delayed_[G.pool[e]] = @ \cup { e },
              !.delay_order = Append(@, e) ]

\* Pool::WeightedEdgeCmp, the ordering of the DelayedEdges set.
WeightedEdgeCmp(a, b) ==
  LET weight_diff == weight(a) - weight(b) IN
  (weight_diff < 0) \/ (weight_diff = 0 /\ addr[a] < addr[b])

\* delayed_.begin()
FirstDelayed(S) == CHOOSE e \in S : \A f \in S \ { e } : WeightedEdgeCmp(e, f)

\* Pool::RetrieveReadyEdges
RECURSIVE RetrieveReadyEdges(_, _)
\* RetrieveReadyEdges admitting an edge whenever the pool is not over its
\* depth yet, without counting the weight of the edge.
RECURSIVE RetrieveReadyEdgesNoWeight(_, _)
RetrieveReadyEdgesNoWeight(ps, q) ==
  IF ps.delayed_[q] = {} THEN ps
  ELSE LET e == FirstDelayed(ps.delayed_[q]) IN
       IF ps.current_use_[q] > depth_[q] THEN ps
       ELSE RetrieveReadyEdgesNoWeight(
              EdgeScheduled([ ps EXCEPT !.ready_ = @ \cup { e },
                                        !.delayed_[q] = @ \ { e } ], e),
              q)

RetrieveReadyEdges(ps, q) ==
  IF ps.delayed_[q] = {} THEN ps
  ELSE LET e == FirstDelayed(ps.delayed_[q]) IN
       IF ps.current_use_[q] + weight(e) > depth_[q] THEN ps
       ELSE RetrieveReadyEdges(
              EdgeScheduled([ ps EXCEPT !.ready_ = @ \cup { e },
                                        !.delayed_[q] = @ \ { e } ], e),
              q)

(***************************************************************************)
(* Plan (src/src/lib/build.cc).                                            *)
(***************************************************************************)
\* ScheduleWork without the early return for an edge that is scheduled
\* already.
ScheduleWorkAgain(ps, e) ==
  LET ps1 == [ ps EXCEPT !.want_[e] = "kWantToFinish" ]
      q == G.pool[e]
  IN IF ShouldDelayEdge(ps1, q)
     THEN RetrieveReadyEdges(DelayEdge(ps1, e), q)
     ELSE LET ps2 == EdgeScheduled(ps1, e)
          IN [ ps2 EXCEPT !.ready_ = @ \cup { e } ]

\* Plan::ScheduleWork
ScheduleWork(ps, e) ==
  IF ps.want_[e] = "kWantToFinish" THEN ps
  ELSE LET ps1 == [ ps EXCEPT !.want_[e] = "kWantToFinish" ]
           q == G.pool[e]
       IN IF ShouldDelayEdge(ps1, q)
          THEN RetrieveReadyEdges(DelayEdge(ps1, e), q)
          ELSE LET ps2 == EdgeScheduled(ps1, e)
               IN [ ps2 EXCEPT !.ready_ = @ \cup { e } ]

\* Plan::AddSubTarget.  The result carries the return value and whether the
\* error string was set.
RECURSIVE AddSubTarget(_, _)
RECURSIVE AddSubTargetInputs(_, _, _)
AddSubTarget(ps, node) ==
  LET edge == in_edge(node) IN
  IF edge = 0
  THEN [ ps |-> ps, ret |-> FALSE, err |-> ps.dirty_[node] ]
  ELSE IF ps.outputs_ready_[edge]
  THEN [ ps |-> ps, ret |-> FALSE, err |-> FALSE ]
  ELSE
    LET inserted == edge \notin DOMAIN ps.want_
        ps1 == IF inserted
               THEN [ ps EXCEPT !.want_ =
                        [ x \in DOMAIN ps.want_ \cup { edge } |->
                            IF x = edge THEN "kWantNothing" ELSE ps.want_[x] ] ]
               ELSE ps
        promote == ps1.dirty_[node] /\ ps1.want_[edge] = "kWantNothing"
        ps2 == [ ps1 EXCEPT !.want_[edge] = "kWantToStart",
                            !.wanted_edges_ = @ + 1 ]
        ps3 == IF AllInputsReady(ps2, edge) THEN ScheduleWork(ps2, edge) ELSE ps2
        ps4 == IF ~is_phony(edge)
               THEN [ ps3 EXCEPT !.command_edges_ = @ + 1 ]
               ELSE ps3
        ps5 == IF promote THEN ps4 ELSE ps1
    IN IF ~inserted
       THEN [ ps |-> ps5, ret |-> TRUE, err |-> FALSE ]
       ELSE AddSubTargetInputs(ps5, edge, 1)

AddSubTargetInputs(ps, edge, i) ==
  IF i > Len(G.ins[edge])
  THEN [ ps |-> ps, ret |-> TRUE, err |-> FALSE ]
  ELSE LET r == AddSubTarget(ps, G.ins[edge][i]) IN
       IF ~r.ret /\ r.err
       THEN [ ps |-> r.ps, ret |-> FALSE, err |-> TRUE ]
       ELSE AddSubTargetInputs(r.ps, edge, i + 1)

\* Plan::AddTarget
PlanAddTarget(ps, node) == AddSubTarget(ps, node)

\* Plan::FindWork returns *ready_.begin(): the ready edge of lowest address.
FindWork(ps) ==
  IF ps.ready_ = {} THEN 0
  ELSE CHOOSE e \in ps.ready_ : \A f \in ps.ready_ : addr[e] <= addr[f]

\* Plan::EdgeFinished and Plan::NodeFinished
RECURSIVE EdgeFinished(_, _, _)
RECURSIVE EdgeFinishedOutputs(_, _, _)
RECURSIVE NodeFinished(_, _, _)
\* EdgeFinished counting the edge out of wanted_edges_ whether or not it
\* was wanted.
EdgeFinishedAlwaysCounted(ps, edge, result) ==
  LET directly_wanted == ps.want_[edge] # "kWantNothing"
      ps1 == IF directly_wanted THEN PoolEdgeFinished(ps, edge) ELSE ps
      ps2 == RetrieveReadyEdges(ps1, G.pool[edge])
  IN IF result # "kEdgeSucceeded" THEN ps2
     ELSE LET ps3 == [ ps2 EXCEPT !.wanted_edges_ = @ - 1 ]
              ps4 == [ ps3 EXCEPT
                         !.want_ = Restrict(@, DOMAIN @ \ { edge }),
                         !.outputs_ready_[edge] = TRUE ]
          IN EdgeFinishedOutputs(ps4, edge, 1)

\* EdgeFinished releasing the weight of the edge from its pool whether or
\* not the edge was wanted.
EdgeFinishedAlwaysReleased(ps, edge, result) ==
  LET directly_wanted == ps.want_[edge] # "kWantNothing"
      ps1 == PoolEdgeFinished(ps, edge)
      ps2 == RetrieveReadyEdges(ps1, G.pool[edge])
  IN IF result # "kEdgeSucceeded" THEN ps2
     ELSE LET ps3 == IF directly_wanted
                     THEN [ ps2 EXCEPT !.wanted_edges_ = @ - 1 ]
                     ELSE ps2
              ps4 == [ ps3 EXCEPT
                         !.want_ = Restrict(@, DOMAIN @ \ { edge }),
                         !.outputs_ready_[edge] = TRUE ]
          IN EdgeFinishedOutputs(ps4, edge, 1)

\* EdgeFinished releasing the weight of the edge without retrieving the
\* delayed edges of its pool.
EdgeFinishedNotRetrieved(ps, edge, result) ==
  LET directly_wanted == ps.want_[edge] # "kWantNothing"
      ps2 == IF directly_wanted THEN PoolEdgeFinished(ps, edge) ELSE ps
  IN IF result # "kEdgeSucceeded" THEN ps2
     ELSE LET ps3 == IF directly_wanted
                     THEN [ ps2 EXCEPT !.wanted_edges_ = @ - 1 ]
                     ELSE ps2
              ps4 == [ ps3 EXCEPT
                         !.want_ = Restrict(@, DOMAIN @ \ { edge }),
                         !.outputs_ready_[edge] = TRUE ]
          IN EdgeFinishedOutputs(ps4, edge, 1)

EdgeFinished(ps, edge, result) ==
  LET directly_wanted == ps.want_[edge] # "kWantNothing"
      ps1 == IF directly_wanted THEN PoolEdgeFinished(ps, edge) ELSE ps
      ps2 == RetrieveReadyEdges(ps1, G.pool[edge])
  IN IF result # "kEdgeSucceeded" THEN ps2
     ELSE LET ps3 == IF directly_wanted
                     THEN [ ps2 EXCEPT !.wanted_edges_ = @ - 1 ]
                     ELSE ps2
              ps4 == [ ps3 EXCEPT
                         !.want_ = Restrict(@, DOMAIN @ \ { edge }),
                         !.outputs_ready_[edge] = TRUE ]
          IN EdgeFinishedOutputs(ps4, edge, 1)

EdgeFinishedOutputs(ps, edge, o) ==
  IF o > Len(G.outs[edge]) THEN ps
  ELSE EdgeFinishedOutputs(NodeFinished(ps, G.outs[edge][o], 1), edge, o + 1)

\* NodeFinished scheduling every wanted consumer of the node, ready or not.
RECURSIVE NodeFinishedUnchecked(_, _, _)
NodeFinishedUnchecked(ps, node, k) ==
  LET oes == out_edges(node) IN
  IF k > Len(oes) THEN ps
  ELSE LET oe == oes[k] IN
       IF oe \notin DOMAIN ps.want_ THEN NodeFinishedUnchecked(ps, node, k + 1)
       ELSE IF ps.want_[oe] # "kWantNothing"
       THEN NodeFinishedUnchecked(ScheduleWork(ps, oe), node, k + 1)
       ELSE NodeFinishedUnchecked(ps, node, k + 1)

\* NodeFinished leaving a consumer that is not wanted unfinished when its
\* inputs are ready.
RECURSIVE NodeFinishedWantedOnly(_, _, _)
NodeFinishedWantedOnly(ps, node, k) ==
  LET oes == out_edges(node) IN
  IF k > Len(oes) THEN ps
  ELSE LET oe == oes[k] IN
       IF oe \notin DOMAIN ps.want_ THEN NodeFinishedWantedOnly(ps, node, k + 1)
       ELSE IF AllInputsReady(ps, oe) /\ ps.want_[oe] # "kWantNothing"
       THEN NodeFinishedWantedOnly(ScheduleWork(ps, oe), node, k + 1)
       ELSE NodeFinishedWantedOnly(ps, node, k + 1)

NodeFinished(ps, node, k) ==
  LET oes == out_edges(node) IN
  IF k > Len(oes) THEN ps
  ELSE LET oe == oes[k] IN
       IF oe \notin DOMAIN ps.want_ THEN NodeFinished(ps, node, k + 1)
       ELSE IF AllInputsReady(ps, oe)
       THEN IF ps.want_[oe] # "kWantNothing"
            THEN NodeFinished(ScheduleWork(ps, oe), node, k + 1)
            ELSE NodeFinished(EdgeFinished(ps, oe, "kEdgeSucceeded"), node, k + 1)
       ELSE NodeFinished(ps, node, k + 1)

\* Plan::CleanNode.  scan[e] is what DependencyScan::RecomputeOutputsDirty
\* answers for edge e: "dirty", "clean" or "error" (a failed stat).
RECURSIVE CleanNode(_, _, _)
RECURSIVE CleanNodeEdges(_, _, _, _)
RECURSIVE CleanNodeOutputs(_, _, _, _)
\* CleanNode marking the node clean without looking at its consumers.
CleanNodeNotPropagated(ps, scan, node) ==
  [ ps |-> [ ps EXCEPT !.dirty_[node] = FALSE ], ret |-> TRUE ]

CleanNode(ps, scan, node) ==
  CleanNodeEdges([ ps EXCEPT !.dirty_[node] = FALSE ], scan, node, 1)

CleanNodeEdges(ps, scan, node, k) ==
  LET oes == out_edges(node) IN
  IF k > Len(oes) THEN [ ps |-> ps, ret |-> TRUE ]
  ELSE
    LET oe == oes[k]
        end == Len(G.ins[oe]) - G.oo[oe]
    IN IF oe \notin DOMAIN ps.want_ \/ ps.want_[oe] = "kWantNothing"
       THEN CleanNodeEdges(ps, scan, node, k + 1)
       ELSE IF oe \in deps_missing_
       THEN CleanNodeEdges(ps, scan, node, k + 1)
       ELSE IF \E i \in 1 .. end : ps.dirty_[G.ins[oe][i]]
       THEN CleanNodeEdges(ps, scan, node, k + 1)
       ELSE IF scan[oe] = "error" THEN [ ps |-> ps, ret |-> FALSE ]
       ELSE IF scan[oe] = "dirty" THEN CleanNodeEdges(ps, scan, node, k + 1)
       ELSE LET r == CleanNodeOutputs(ps, scan, oe, 1) IN
            IF ~r.ret THEN r
            ELSE LET ps1 == [ r.ps EXCEPT !.want_[oe] = "kWantNothing",
                                          !.wanted_edges_ = @ - 1 ]
                     ps2 == IF ~is_phony(oe)
                            THEN [ ps1 EXCEPT !.command_edges_ = @ - 1 ]
                            ELSE ps1
                 IN CleanNodeEdges(ps2, scan, node, k + 1)

CleanNodeOutputs(ps, scan, oe, o) ==
  IF o > Len(G.outs[oe]) THEN [ ps |-> ps, ret |-> TRUE ]
  ELSE LET r == CleanNode(ps, scan, G.outs[oe][o]) IN
       IF ~r.ret THEN r ELSE CleanNodeOutputs(r.ps, scan, oe, o + 1)

\* Plan::more_to_do
more_to_do(ps) == ps.wanted_edges_ > 0 /\ ps.command_edges_ > 0

(***************************************************************************)
(* BuildLog (src/src/lib/build_log.cc).                                    *)
(*                                                                         *)
(* The file is a sequence of integer cells.  A record is a four-cell       *)
(* little-endian size prefix followed by its body; the body is a type tag  *)
(* followed by the fields of the entry, one cell per field.  Paths are     *)
(* stored by their index in AllPaths.                                      *)
(***************************************************************************)
LogPaths == << "out", "out2", "foo.h", "bar.h" >>

RECURSIVE SetToSeq(_)
SetToSeq(S) ==
  IF S = {} THEN << >>
  ELSE LET x == CHOOSE y \in S : TRUE IN << x >> \o SetToSeq(S \ { x })

\* The outputs of a large manifest, for logs with many records.
MaxBulk == 334
BulkPaths == [ i \in 1 .. MaxBulk |-> "bulk" \o ToString(i) ]

AllPaths ==
  LogPaths \o
  SetToSeq(UNION { NodesOf(Graphs[i]) : i \in DOMAIN Graphs } \ Range(LogPaths))
  \o BulkPaths

Paths == Range(AllPaths)

PathIxTable == [ p \in Paths |-> CHOOSE i \in DOMAIN AllPaths : AllPaths[i] = p ]
PathIx(p) == PathIxTable[p]

kCurrentVersion == 1
kOldestSupportedVersion == 1

tagVersionEntry == 1
tagBuildEntry == 2
tagPathEntry == 3
tagDepsEntry == 4

size_prefix_size == 4

\* The size prefix written by FinishSizePrefixed: 32 bits, little-endian.
SizePrefix(n) ==
  << n % 256, (n \div 256) % 256, (n \div 65536) % 256, (n \div 16777216) % 256 >>

\* flatbuffers::GetPrefixedSize
GetPrefixedSize(b) == b[1] + 256 * b[2] + 65536 * b[3] + 16777216 * b[4]

\* ~x on a 32-bit value, read back as a signed int.
Not32(x) == -x - 1

NoDeps == [ present |-> FALSE, mtime |-> 0, nodes |-> << >> ]

EmptyLog ==
  [ entries_ |-> << >>, nodes_ |-> << >>, deps_ |-> << >>,
    log_file_ |-> FALSE, needs_recompaction_ |-> FALSE ]

NoIds == [ p \in Paths |-> -1 ]

NoFile == [ exists |-> FALSE, data |-> << >> ]

\* L bundles what the log operations read and write: the BuildLog object
\* (mem), the Node ids of its State (ids), the file, and the history.
Snap(L) ==
  [ L EXCEPT !.hist = Append(@,
      [ end |-> Len(L.file.data), entries_ |-> L.mem.entries_,
        nodes_ |-> L.mem.nodes_, deps_ |-> L.mem.deps_ ]) ]

\* FlushEntry: append one size-prefixed record to the file.
FlushEntry(L, body) ==
  [ L EXCEPT !.file.data = @ \o SizePrefix(Len(body)) \o body ]

\* OpenForWrite writing the version entry whatever the file holds.
OpenAppendHeader(L) ==
  Snap(FlushEntry([ L EXCEPT !.file.exists = TRUE, !.mem.log_file_ = TRUE ],
                  << tagVersionEntry, kCurrentVersion >>))

\* BuildLog::OpenForWrite, after a possible recompaction: fopen(path, "ab")
\* and the version entry when the file is empty.
OpenAppend(L) ==
  LET L1 == [ L EXCEPT !.file.exists = TRUE, !.mem.log_file_ = TRUE ] IN
  IF Len(L1.file.data) = 0
  THEN Snap(FlushEntry(L1, << tagVersionEntry, kCurrentVersion >>))
  ELSE L1

\* WriteEntry with the two times in each other's field.
WriteEntrySwapped(L, entry) ==
  FlushEntry(L, << tagBuildEntry, PathIx(entry.output), entry.command_hash,
                   entry.end_time, entry.start_time, entry.mtime >>)

\* BuildLog::WriteEntry
WriteEntry(L, entry) ==
  FlushEntry(L, << tagBuildEntry, PathIx(entry.output), entry.command_hash,
                   entry.start_time, entry.end_time, entry.mtime >>)

\* The in-memory update every BuildEntry gets, in RecordCommand and in Load.
SetEntry(entries, path, command_hash, start_time, end_time, mtime) ==
  (path :> [ output |-> path, command_hash |-> command_hash,
             start_time |-> start_time, end_time |-> end_time,
             mtime |-> mtime ])
  @@ entries

\* BuildLog::RecordCommand(path, command_hash, start_time, end_time, mtime)
RecordCommand(L, path, command_hash, start_time, end_time, mtime) ==
  LET L1 == [ L EXCEPT !.mem.entries_ =
                SetEntry(@, path, command_hash, start_time, end_time, mtime) ]
  IN IF L1.mem.log_file_
     THEN Snap(WriteEntry(L1, L1.mem.entries_[path]))
     ELSE L1

\* UpdateDeps leaving a record that is there as it is.
UpdateDepsKeepFirst(deps, out_id, d) ==
  IF out_id < Len(deps) /\ deps[out_id + 1].present THEN deps
  ELSE IF out_id >= Len(deps)
  THEN deps \o [ i \in 1 .. out_id - Len(deps) |-> NoDeps ] \o << d >>
  ELSE [ deps EXCEPT ![out_id + 1] = d ]

\* BuildLog::UpdateDeps
UpdateDeps(deps, out_id, d) ==
  LET resized ==
        IF out_id >= Len(deps)
        THEN deps \o [ i \in 1 .. out_id + 1 - Len(deps) |-> NoDeps ]
        ELSE deps
  IN [ resized EXCEPT ![out_id + 1] = d ]

\* BuildLog::GetDeps
GetDeps(L, node) ==
  IF L.ids[node] < 0 \/ L.ids[node] >= Len(L.mem.deps_) THEN NoDeps
  ELSE L.mem.deps_[L.ids[node] + 1]

\* BuildLog::RecordId
RecordId(L, node) ==
  LET id == Len(L.mem.nodes_)
      L1 == FlushEntry(L, << tagPathEntry, PathIx(node), Not32(id) >>)
  IN Snap([ L1 EXCEPT !.ids[node] = id, !.mem.nodes_ = Append(@, node) ])

RECURSIVE RecordIds(_, _, _)
RecordIds(L, nodes, i) ==
  IF i > Len(nodes) THEN L
  ELSE RecordIds(IF L.ids[nodes[i]] < 0 THEN RecordId(L, nodes[i]) ELSE L,
                 nodes, i + 1)

\* RecordDeps without the test for new data: the record is always written.
RecordDepsAlways(L, node, mtime, nodes) ==
  LET L1 == IF L.ids[node] < 0 THEN RecordId(L, node) ELSE L
      L2 == RecordIds(L1, nodes, 1)
      L3 == FlushEntry(L2,
              << tagDepsEntry, L2.ids[node], mtime >>
              \o [ i \in 1 .. Len(nodes) |-> L2.ids[nodes[i]] ])
  IN Snap([ L3 EXCEPT !.mem.deps_ =
              UpdateDeps(@, L2.ids[node],
                         [ present |-> TRUE, mtime |-> mtime,
                           nodes |-> nodes ]) ])

\* BuildLog::RecordDeps(node, mtime, node_count, nodes)
RecordDeps(L, node, mtime, nodes) ==
  CHOOSE r \in
    { LET ids_made == Len(L2.mem.nodes_) # Len(L0.mem.nodes_)
          deps == GetDeps(L2, node)
          made_change ==
            \/ ids_made
            \/ ~deps.present
            \/ deps.mtime # mtime
            \/ Len(deps.nodes) # Len(nodes)
            \/ \E i \in 1 .. Len(nodes) : deps.nodes[i] # nodes[i]
          L3 == FlushEntry(L2,
                  << tagDepsEntry, L2.ids[node], mtime >>
                  \o [ i \in 1 .. Len(nodes) |-> L2.ids[nodes[i]] ])
      IN IF ~made_change THEN L2
         ELSE Snap([ L3 EXCEPT !.mem.deps_ =
                       UpdateDeps(@, L2.ids[node],
                                  [ present |-> TRUE, mtime |-> mtime,
                                    nodes |-> nodes ]) ]) :
      L0 \in { L },
      L2 \in { RecordIds(IF L.ids[node] < 0 THEN RecordId(L, node) ELSE L,
                         nodes, 1) } } : TRUE

\* BuildLog::Close
CloseLog(L) == [ L EXCEPT !.mem.log_file_ = FALSE ]

\* VersionIsValid without its lower bound.
VersionIsValidNoLowerBound(version) == version <= kCurrentVersion

\* VersionIsValid
VersionIsValid(version) ==
  version >= kOldestSupportedVersion /\ version <= kCurrentVersion

\* The warning of Load about the first record; version is -1 for nullopt.
HeaderError(version) ==
  (IF version = -1
   THEN "missing log version entry"
   ELSE "log version " \o ToString(version) \o " too "
        \o (IF version < kOldestSupportedVersion THEN "old" ELSE "new")
        \o " (current " \o ToString(kCurrentVersion) \o ")")
  \o "; starting over"

\* read_entry_data taking a short read of the body for a whole record.
read_entry_dataShort(data, offset) ==
  LET avail == Len(data) - offset IN
  IF avail = 0
  THEN [ status |-> "kFinished", body |-> << >>, next |-> offset ]
  ELSE IF avail < size_prefix_size
  THEN [ status |-> "kFailed", body |-> << >>, next |-> Len(data) ]
  ELSE LET entry_size ==
             GetPrefixedSize(SubSeq(data, offset + 1, offset + size_prefix_size))
           start == offset + size_prefix_size
       IN IF Len(data) - start < entry_size
          THEN [ status |-> "kSuccess",
                 body |-> SubSeq(data, start + 1, Len(data)),
                 next |-> Len(data) ]
          ELSE [ status |-> "kSuccess",
                 body |-> SubSeq(data, start + 1, start + entry_size),
                 next |-> start + entry_size ]

\* The read_entry_data lambda of Load: the status, the body read and the
\* file position afterwards.
read_entry_data(data, offset) ==
  LET avail == Len(data) - offset IN
  IF avail = 0
  THEN [ status |-> "kFinished", body |-> << >>, next |-> offset ]
  ELSE IF avail < size_prefix_size
  THEN [ status |-> "kFailed", body |-> << >>, next |-> Len(data) ]
  ELSE LET entry_size ==
             GetPrefixedSize(SubSeq(data, offset + 1, offset + size_prefix_size))
           start == offset + size_prefix_size
       IN IF Len(data) - start < entry_size
          THEN [ status |-> "kFailed", body |-> << >>, next |-> Len(data) ]
          ELSE [ status |-> "kSuccess",
                 body |-> SubSeq(data, start + 1, start + entry_size),
                 next |-> start + entry_size ]

\* flatbuffers::Verifier::VerifySizePrefixedBuffer<log::EntryHolder>: the
\* body carries a known entry type with the fields of that type.
VerifySizePrefixedBuffer(body) ==
  /\ Len(body) >= 1
  /\ \/ body[1] = tagVersionEntry /\ Len(body) = 2
     \/ body[1] = tagBuildEntry /\ Len(body) = 6 /\ body[2] \in DOMAIN AllPaths
     \/ body[1] = tagPathEntry /\ Len(body) = 3 /\ body[2] \in DOMAIN AllPaths
     \/ body[1] = tagDepsEntry /\ Len(body) >= 3

\* The log_version lambda of Load: the version, or -1 for std::nullopt.
log_version(data) ==
  LET r == read_entry_data(data, 0) IN
  IF r.status # "kSuccess" THEN -1
  ELSE IF ~VerifySizePrefixedBuffer(r.body) THEN -1
  ELSE IF r.body[1] # tagVersionEntry THEN -1
  ELSE r.body[2]

\* The test of the checksum of a path entry left out.
ChecksumMismatchIgnored(checksum, id) == FALSE

\* Load, PathEntry: the checksum is not that of the next id.
ChecksumMismatch(checksum, id) ==
  LET expected_id == Not32(checksum) IN id # expected_id

kMinCompactionEntryCount == 100
kMinCompactionDepsEntryCount == 1000
kCompactionRatio == 3

\* The decision with the counts compared by >= in place of >.
NeedsRecompactionFrom(log_version_, st) ==
  \/ log_version_ < kCurrentVersion
  \/ /\ st.total_entry_count >= kMinCompactionEntryCount
     /\ st.total_entry_count >= st.unique_entry_count * kCompactionRatio
  \/ /\ st.total_dep_record_count >= kMinCompactionDepsEntryCount
     /\ st.total_dep_record_count >=
          st.unique_dep_record_count * kCompactionRatio

\* Load, at the end of a file read without error: whether it is time to
\* rebuild the log.
NeedsRecompaction(log_version_, st) ==
  \/ log_version_ < kCurrentVersion
  \/ /\ st.total_entry_count > kMinCompactionEntryCount
     /\ st.total_entry_count > st.unique_entry_count * kCompactionRatio
  \/ /\ st.total_dep_record_count > kMinCompactionDepsEntryCount
     /\ st.total_dep_record_count >
          st.unique_dep_record_count * kCompactionRatio

\* One turn of the record loop of Load.  st carries the log being filled
\* (mem, ids), the offset of the record being read, the read status and the
\* four counters.
LoadStep(data, st) ==
  LET r == read_entry_data(data, st.offset) IN
  IF r.status # "kSuccess" THEN [ st EXCEPT !.read_status = r.status ]
  ELSE IF ~VerifySizePrefixedBuffer(r.body)
  THEN [ st EXCEPT !.read_status = "kFailed" ]
  ELSE IF r.body[1] = tagBuildEntry
  THEN LET output == AllPaths[r.body[2]] IN
       ([ st EXCEPT
             !.offset = r.next,
             !.unique_entry_count =
               IF output \in DOMAIN st.mem.entries_ THEN @ ELSE @ + 1,
             !.total_entry_count = @ + 1,
             !.mem.entries_ =
               SetEntry(@, output, r.body[3], r.body[4], r.body[5], r.body[6]) ])
  ELSE IF r.body[1] = tagPathEntry
  THEN LET node == AllPaths[r.body[2]]
           id == Len(st.mem.nodes_)
       IN IF ChecksumMismatch(r.body[3], id)
          THEN [ st EXCEPT !.read_status = "kFailed" ]
          ELSE IF st.ids[node] >= 0
          THEN [ st EXCEPT !.read_status = "kAbort" ]   \* assert(node->id() < 0)
          ELSE ([ st EXCEPT !.offset = r.next,
                             !.ids[node] = id,
                             !.mem.nodes_ = Append(@, node) ])
  ELSE IF r.body[1] = tagDepsEntry
  THEN LET deps_count == Len(r.body) - 3
           out_id == r.body[2]
       IN IF \E i \in 1 .. deps_count :
               r.body[3 + i] < 0 \/ r.body[3 + i] >= Len(st.mem.nodes_)
          THEN [ st EXCEPT !.read_status = "kAbort" ]   \* assert(deps_data[i] < nodes_.size())
          ELSE ([ st EXCEPT
                     !.offset = r.next,
                     !.total_dep_record_count = @ + 1,
                     !.unique_dep_record_count =
                       IF out_id < Len(st.mem.deps_)
                          /\ st.mem.deps_[out_id + 1].present
                       THEN @ ELSE @ + 1,
                     !.mem.deps_ =
                       UpdateDeps(@, out_id,
                         [ present |-> TRUE, mtime |-> r.body[3],
                           nodes |-> [ i \in 1 .. deps_count |->
                                         st.mem.nodes_[r.body[3 + i] + 1] ] ]) ])
  ELSE \* a version entry after the first record is skipped
       ([ st EXCEPT !.offset = r.next ])

\* k turns of the record loop, or as many as it takes to leave it.
RECURSIVE LoadSteps(_, _, _)
LoadSteps(data, st, k) ==
  IF st.read_status # "kSuccess" THEN st
  ELSE IF k <= 1 THEN LoadStep(data, st)
  ELSE LoadSteps(data, LoadSteps(data, st, k \div 2), k - k \div 2)

\* The record loop of Load: every turn but the last reads a whole record, so
\* the loop is left after at most one turn per size prefix in the file.
LoadLoop(data, st) == LoadSteps(data, st, Len(data) \div size_prefix_size + 1)

\* The recovery of Load that reports the warning and leaves the file as it is.
LoadRecoverNoTruncate(loaded, offset) ==
  [ L |-> loaded, ret |-> "true", err |-> "premature end of file; recovering" ]

\* The recovery of Load after a failed read: the file is truncated to the
\* offset of the record that failed, the error becomes a warning.
LoadRecover(loaded, offset) ==
  [ L |-> [ loaded EXCEPT !.file.data = SubSeq(@, 1, offset) ],
    ret |-> "true", err |-> "premature end of file; recovering" ]

\* BuildLog::Load into a fresh BuildLog and a fresh State.  The result is the
\* log, the ids, the file as Load leaves it, the return value and *err.
Load(f) ==
  LET fresh == [ mem |-> EmptyLog, ids |-> NoIds, file |-> f ] IN
  IF ~f.exists
  THEN [ L |-> fresh, ret |-> "true", err |-> "" ]
  ELSE
    LET version == log_version(f.data) IN
    IF version = -1 \/ ~VersionIsValid(version)
    THEN [ L |-> [ fresh EXCEPT !.file = NoFile ], ret |-> "true",
           err |-> HeaderError(version) ]
    ELSE
      LET st == LoadLoop(f.data,
                  [ mem |-> EmptyLog, ids |-> NoIds,
                    offset |-> read_entry_data(f.data, 0).next,
                    read_status |-> "kSuccess",
                    unique_entry_count |-> 0, total_entry_count |-> 0,
                    unique_dep_record_count |-> 0, total_dep_record_count |-> 0 ])
          loaded == [ mem |-> st.mem, ids |-> st.ids, file |-> f ]
      IN IF st.read_status = "kAbort"
         THEN [ L |-> loaded, ret |-> "abort", err |-> "" ]
         ELSE IF st.read_status # "kFinished"
         THEN LoadRecover(loaded, st.offset)
         ELSE
           LET recompact == NeedsRecompaction(version, st)
           IN [ L |-> [ loaded EXCEPT !.mem.needs_recompaction_ = recompact ],
                ret |-> "true", err |-> "" ]

\* IsDepsEntryLiveFor taking every node for live.
IsDepsEntryLiveForAll(live, node) == TRUE

\* BuildLog::IsDepsEntryLiveFor, given the set of nodes whose producing
\* edge has a deps binding.
IsDepsEntryLiveFor(live, node) == node \in live

\* A BuildLogUser that reports no path dead.
IsPathDeadNever(dead, output) == FALSE

\* BuildLogUser::IsPathDead, given the set of paths it reports dead.
IsPathDead(dead, output) == output \in dead

\* The loop of Recompact over entries_, for the paths lo .. hi of AllPaths:
\* the first half of the range, then the second half on its result.
RECURSIVE RecompactEntries(_, _, _, _, _)
RecompactEntries(N, entries, dead, lo, hi) ==
  IF lo > hi THEN N
  ELSE IF lo < hi
  THEN LET mid == (lo + hi) \div 2 IN
       CHOOSE N2 \in { RecompactEntries(N1, entries, dead, mid + 1, hi) :
                         N1 \in { RecompactEntries(N, entries, dead, lo, mid) } } :
         TRUE
  ELSE LET output == AllPaths[lo] IN
       IF output \notin DOMAIN entries \/ IsPathDead(dead, output)
       THEN N
       ELSE LET e == entries[output] IN
            RecordCommand(N, e.output, e.command_hash, e.start_time,
                          e.end_time, e.mtime)

\* The loop of Recompact over deps_, for the old ids lo .. hi: the first
\* half of the range, then the second half on its result.
RECURSIVE RecompactDeps(_, _, _, _, _)
RecompactDeps(N, old, live, lo, hi) ==
  IF lo > hi THEN N
  ELSE IF lo < hi
  THEN LET mid == (lo + hi) \div 2 IN
       CHOOSE N2 \in { RecompactDeps(N1, old, live, mid + 1, hi) :
                         N1 \in { RecompactDeps(N, old, live, lo, mid) } } :
         TRUE
  ELSE LET old_id == lo
           deps == old.deps_[old_id + 1]
       IN IF ~deps.present \/ ~IsDepsEntryLiveFor(live, old.nodes_[old_id + 1])
          THEN N
          ELSE RecordDeps(N, old.nodes_[old_id + 1], deps.mtime, deps.nodes)

\* BuildLog::Recompact.  dead is the set of paths BuildLogUser::IsPathDead
\* reports dead.  The new log is written to a file of its own, which then
\* replaces the file; nodes_, deps_ and entries_ are taken from the new log,
\* needs_recompaction_ is left as it was.
Recompact(L, dead, live) ==
  LET new0 == OpenAppend([ mem |-> EmptyLog, ids |-> L.ids, file |-> NoFile,
                           hist |-> << >> ])
      new1 == RecompactEntries(new0, L.mem.entries_, dead, 1, Len(AllPaths))
      known == Range(L.mem.nodes_)
      new2 == [ new1 EXCEPT !.ids =
                  [ p \in Paths |-> IF p \in known THEN -1 ELSE L.ids[p] ] ]
      new3 == RecompactDeps(new2, L.mem, live, 0, Len(L.mem.deps_) - 1)
  IN [ new3 EXCEPT !.mem.log_file_ = FALSE,
                   !.mem.needs_recompaction_ = L.mem.needs_recompaction_ ]

\* BuildLog::OpenForWrite
OpenForWrite(L, dead, live) ==
  OpenAppend(IF L.mem.needs_recompaction_ THEN Recompact(L, dead, live) ELSE L)

(***************************************************************************)
(* The log on its own: a writer records commands and deps and closes the   *)
(* file, the file may then be cut short, and a fresh BuildLog loads it and *)
(* may go on writing.                                                      *)
(***************************************************************************)
LogState == [ mem |-> blog, ids |-> ids, file |-> file, hist |-> hist ]

SetLog(L) ==
  /\ blog' = L.mem
  /\ ids' = L.ids
  /\ file' = L.file
  /\ hist' = L.hist

Outputs == { "out", "out2" }

NoUser == [ dead |-> {}, live |-> {} ]

NoBefore ==
  [ n |-> 0, entries_ |-> << >>, nodes_ |-> << >>, deps_ |-> << >>,
    ids |-> NoIds, size |-> 0 ]

\* What a recompaction starts from.
Before ==
  [ n |-> before.n + 1, entries_ |-> blog.entries_, nodes_ |-> blog.nodes_,
    deps_ |-> blog.deps_, ids |-> ids, size |-> Len(file.data) ]

\* The calls of RecordCommand considered:
\* (path, command_hash, start_time, end_time, mtime)
CommandChoices ==
  { << "out", 7, 0, 1, 1 >>, << "out", 8, 2, 3, 2 >>, << "out2", 7, 0, 1, 1 >> }

\* The calls of RecordDeps considered: (node, mtime, nodes)
DepsChoices ==
  { << "out", 1, << >> >>,
    << "out", 1, << "foo.h", "bar.h" >> >>,
    << "out", 2, << "foo.h", "bar.h" >> >>,
    << "out", 1, << "bar.h", "foo.h" >> >>,
    << "out2", 1, << "foo.h", "bar.h" >> >>,
    << "out2", 1, << "out", "foo.h" >> >> }

LogOpenForWrite ==
  /\ lpc \in { "new", "loaded" }
  /\ load_ret # "abort"
  /\ SetLog(OpenForWrite(LogState, user.dead, user.live))
  /\ before' = IF blog.needs_recompaction_ THEN Before ELSE before
  /\ lpc' = "write"
  /\ UNCHANGED << written, damage, cut, nops, loads, load_ret, load_err, user >>

LogRecordCommand ==
  /\ lpc = "write"
  /\ nops < MaxOps
  /\ \E c \in CommandChoices :
       SetLog(RecordCommand(LogState, c[1], c[2], c[3], c[4], c[5]))
  /\ nops' = nops + 1
  /\ UNCHANGED << written, damage, cut, lpc, loads, load_ret, load_err, user, before >>

LogRecordDeps ==
  /\ lpc = "write"
  /\ nops < MaxOps
  /\ \E d \in DepsChoices :
       SetLog(RecordDeps(LogState, d[1], d[2], d[3]))
  /\ nops' = nops + 1
  /\ UNCHANGED << written, damage, cut, lpc, loads, load_ret, load_err, user, before >>

LogClose ==
  /\ lpc = "write"
  /\ SetLog(CloseLog(LogState))
  /\ written' = [ entries_ |-> blog.entries_, nodes_ |-> blog.nodes_,
                  deps_ |-> blog.deps_, ids |-> ids ]
  /\ lpc' = "closed"
  /\ UNCHANGED << damage, cut, nops, loads, load_ret, load_err, user, before >>

\* The file is cut to k bytes, as by a crash in the middle of a write.  The
\* history keeps the records that lie completely before the cut.
LogTruncate ==
  /\ lpc = "closed"
  /\ damage = "none"
  /\ loads = 0
  /\ \E k \in 1 .. Len(file.data) - 1 :
       /\ file' = [ file EXCEPT !.data = SubSeq(@, 1, k) ]
       /\ hist' = SelectSeq(hist, LAMBDA h : h.end <= k)
       /\ cut' = k
  /\ damage' = "cut"
  /\ UNCHANGED << blog, ids, written, lpc, nops, loads, load_ret, load_err, user, before >>

\* Another process appends to the file: a path record numbered from its own,
\* older view of the log, or bytes the verifier rejects.
LogForeignAppend ==
  /\ lpc = "closed"
  /\ damage = "none"
  /\ loads = 0
  /\ file.exists
  /\ \E body \in { << tagPathEntry, PathIx("bar.h"), Not32(j) >> :
                     j \in 0 .. Len(blog.nodes_) - 1 } \cup { << 0 >> } :
       file' = [ file EXCEPT !.data = @ \o SizePrefix(Len(body)) \o body ]
  /\ cut' = Len(file.data)
  /\ damage' = IF Len(file'.data) - Len(file.data) = size_prefix_size + 3
               THEN "checksum" ELSE "foreign"
  /\ UNCHANGED << blog, ids, hist, written, lpc, nops, loads, load_ret,
                  load_err, user, before >>

\* The file is replaced by one that does not begin with a version entry of
\* a supported version: an empty file, the records without the version
\* entry, a version entry of another version, or a first record the verifier
\* rejects.
LogBadHeader ==
  /\ lpc = "closed"
  /\ damage = "none"
  /\ loads = 0
  /\ file.exists
  /\ LET header == Len(SizePrefix(2)) + 2
         rest == SubSeq(file.data, header + 1, Len(file.data))
     IN \E data \in
            { << >>, rest, SizePrefix(1) \o << 0 >> \o rest }
            \cup { SizePrefix(2) \o << tagVersionEntry, v >> \o rest :
                     v \in { kOldestSupportedVersion - 1, kCurrentVersion + 1 } } :
          file' = [ file EXCEPT !.data = data ]
  /\ hist' = << >>
  /\ cut' = 0
  /\ damage' = "header"
  /\ UNCHANGED << blog, ids, written, lpc, nops, loads, load_ret, load_err, user, before >>

\* NinjaMain::ToolRecompact: the log just loaded is recompacted and the
\* program ends.
LogRecompact ==
  /\ lpc = "loaded"
  /\ load_ret = "true"
  /\ \E L1 \in { Recompact(LogState, user.dead, user.live) } :
       /\ SetLog(L1)
       /\ written' = [ entries_ |-> L1.mem.entries_, nodes_ |-> L1.mem.nodes_,
                       deps_ |-> L1.mem.deps_, ids |-> L1.ids ]
  /\ before' = Before
  /\ lpc' = "closed"
  /\ UNCHANGED << damage, cut, nops, loads, load_ret, load_err, user >>

\* The builds of a large manifest: total calls of RecordCommand, or of
\* RecordDeps with a new mtime in each round, over the paths of `over` in
\* turn, then one call for each path of `then`.  The history is not kept.
BulkPath(b, i) ==
  IF i <= b.total THEN b.over[((i - 1) % Len(b.over)) + 1]
  ELSE b.then[i - b.total]

RECURSIVE BulkRecord(_, _, _, _)
BulkRecord(L, b, lo, hi) ==
  IF lo > hi THEN L
  ELSE IF lo < hi
  THEN LET mid == (lo + hi) \div 2 IN
       CHOOSE L2 \in { BulkRecord(L1, b, mid + 1, hi) :
                         L1 \in { BulkRecord(L, b, lo, mid) } } : TRUE
  ELSE LET i == lo
           round == (i - 1) \div Len(b.over) + 1
           L1 == IF b.kind = "command"
                 THEN RecordCommand(L, BulkPath(b, i), 7, i - 1, i, round)
                 ELSE RecordDeps(L, BulkPath(b, i), round, << >>)
       IN [ L1 EXCEPT !.hist = << >> ]

BulkChoices ==
  { [ kind |-> "command", over |-> << "out" >>, then |-> << "out2" >>,
      total |-> n ] : n \in { kMinCompactionEntryCount - 1,
                              kMinCompactionEntryCount,
                              2 * kMinCompactionEntryCount } }
  \cup
  { [ kind |-> "command", over |-> SubSeq(BulkPaths, 1, MaxBulk \div 10 + 1),
      then |-> << >>, total |-> n ] :
        n \in { kCompactionRatio * (MaxBulk \div 10 + 1),
                kCompactionRatio * (MaxBulk \div 10 + 1) + 1 } }
  \cup
  { [ kind |-> "deps", over |-> << "out" >>, then |-> << >>, total |-> n ] :
        n \in { kMinCompactionDepsEntryCount,
                kMinCompactionDepsEntryCount + 1 } }
  \cup
  { [ kind |-> "deps", over |-> BulkPaths, then |-> << >>, total |-> n ] :
        n \in { kCompactionRatio * MaxBulk, kCompactionRatio * MaxBulk + 1 } }

LogBulk ==
  /\ lpc = "write"
  /\ nops = 0
  /\ loads = 0
  /\ \E b \in BulkChoices : SetLog(BulkRecord(LogState, b, 1, b.total + Len(b.then)))
  /\ nops' = MaxOps
  /\ UNCHANGED << written, damage, cut, lpc, loads, load_ret, load_err, user,
                  before >>

LogLoad ==
  /\ lpc = "closed"
  /\ loads < MaxLoads
  /\ \E r \in { Load(file) } :
       /\ blog' = r.L.mem
       /\ ids' = r.L.ids
       /\ file' = r.L.file
       /\ hist' = IF r.L.file.exists THEN hist ELSE << >>
       /\ load_ret' = r.ret
       /\ load_err' = r.err
  /\ lpc' = "loaded"
  /\ loads' = loads + 1
  /\ UNCHANGED << written, damage, cut, nops, user, before >>

LogInitVars ==
  /\ blog = EmptyLog
  /\ ids = NoIds
  /\ file = NoFile
  /\ hist = << >>
  /\ written = [ entries_ |-> << >>, nodes_ |-> << >>, deps_ |-> << >>,
                 ids |-> NoIds ]
  /\ damage = "none"
  /\ cut = 0
  /\ lpc = "new"
  /\ nops = 0
  /\ loads = 0
  /\ load_ret = "none"
  /\ load_err = ""
  /\ before = NoBefore

(***************************************************************************)
(* The build: NinjaMain::RunBuild adds the targets to the plan and runs    *)
(* Builder::Build (src/src/lib/ninja.cc, src/src/lib/build.cc).            *)
(***************************************************************************)
SetPlan(ps) ==
  /\ want_' = ps.want_
  /\ wanted_edges_' = ps.wanted_edges_
  /\ command_edges_' = ps.command_edges_
  /\ ready_' = ps.ready_
  /\ current_use_' = ps.current_use_
  /\ delayed_' = ps.delayed_
  /\ delay_order' = ps.delay_order
  /\ outputs_ready_' = ps.outputs_ready_
  /\ dirty_' = ps.dirty_

planVars == << want_, wanted_edges_, command_edges_, ready_, current_use_,
               delayed_, delay_order, outputs_ready_, dirty_ >>

\* PathManager::PathManager, with the two paths the calls are made with.
PathManagerFor(base_dir, p1, p2) ==
  [ base_dir_ |-> base_dir, paths_ |-> << >>, path_index_ |-> << >>,
    p1 |-> p1, p2 |-> p2, n |-> 0, op |-> "none", arg |-> << >>,
    ret |-> << >> ]

\* No PathManager.
NoPathManager == PathManagerFor("", "", "")

\* No call of NinjaMain::IsPathDead yet.
NoQuery == [ n |-> 0, s |-> "", mtime |-> 0, ret |-> FALSE ]

\* No call of Builder::Cleanup yet.
NoCleanup ==
  [ n |-> 0, active_edges |-> {}, stat |-> << >>, removed |-> {},
    logged |-> {} ]

\* No command has been finished yet.
NoFinish == [ edge |-> 0, unchanged |-> {}, scan |-> << >> ]

\* CommandBuild: the failure budget given by -k N.
FailuresAllowed(value) == IF value > 0 THEN value ELSE INT_MAX

\* The configurations of the command line.  A dry run uses neither the
\* parallelism nor the load cap and no command fails in it, so it is run
\* with the defaults.  A single job is run without a load cap; several jobs
\* are run with one, where the load may at any time be below it or not, so
\* that their runs include those without a cap.
Configs ==
  { c \in [ parallelism : 1 .. MaxParallelism,
            failures_allowed : { FailuresAllowed(k) : k \in 0 .. MaxFailures },
            max_load_average : { 0, 1 },
            dry_run : BOOLEAN ] :
      /\ c.dry_run => c.parallelism = 1 /\ c.failures_allowed = 1
      /\ c.max_load_average = 0 <=> c.parallelism = 1 }

\* --- the state DependencyScan::RecomputeDirty leaves behind ---
LeavesOf(gr) == { x \in NodesOf(gr) : in_edgeOf(gr, x) = 0 }

\* An edge is dirty when one of its non-order-only inputs is.
ScanConsistent(gr, D, M) ==
  \A e \in EdgesOf(gr) :
    (\E i \in 1 .. Len(gr.ins[e]) - gr.oo[e] :
        in_edgeOf(gr, gr.ins[e][i]) \in D \/ gr.ins[e][i] \in M)
    => e \in D

RECURSIVE ScanReady(_, _, _)
ScanReady(gr, D, e) ==
  /\ ~(e \in D /\ ~(e \in gr.phony /\ Len(gr.ins[e]) = 0))
  /\ \A i \in 1 .. Len(gr.ins[e]) :
       LET ie == in_edgeOf(gr, gr.ins[e][i]) IN ie = 0 \/ ScanReady(gr, D, ie)

\* The two address orders of the edges that are considered.
AddrOrders(gr) ==
  { [ e \in EdgesOf(gr) |-> e ], [ e \in EdgesOf(gr) |-> gr.n + 1 - e ] }

\* State::AddEdge, AddIn and AddOut have built the graph of the manifest.
GraphInit(gr) ==
  /\ edges_ = gr
  /\ in_edge_ = [ x \in NodesOf(gr) |-> in_edgeOf(gr, x) ]
  /\ out_edges_ = [ x \in NodesOf(gr) |-> out_edgesFrom(gr, x, 1) ]
  /\ last_out = NoCall
  /\ cleanup = NoCleanup
  /\ path_dead = NoQuery
  /\ last_node = NoLookup
  /\ main = NoMain
  /\ parse = NoParse

BuildInitVars ==
  /\ g \in DOMAIN Graphs
  /\ pm = NoPathManager
  /\ GraphInit(Graphs[g])
  /\ addr \in AddrOrders(Graphs[g])
  /\ \E D \in SUBSET EdgesOf(Graphs[g]),
        M \in { {} } \cup { { x } : x \in Graphs[g].missing } :
       /\ ScanConsistent(Graphs[g], D, M)
       /\ EdgesOf(Graphs[g]) \ D \in Graphs[g].clean
       /\ dirty_ = [ x \in NodesOf(Graphs[g]) |->
                       in_edgeOf(Graphs[g], x) \in D \/ x \in M ]
       /\ outputs_ready_ = [ e \in EdgesOf(Graphs[g]) |->
                               ScanReady(Graphs[g], D, e) ]
       /\ deps_missing_ \in SUBSET (Graphs[g].deps \cap D)
  /\ todo \in (SUBSET Graphs[g].targets) \ { {} }
  /\ want_ = << >>
  /\ wanted_edges_ = 0
  /\ command_edges_ = 0
  /\ ready_ = {}
  /\ current_use_ = [ q \in Pools |-> 0 ]
  /\ delayed_ = [ q \in Pools |-> {} ]
  /\ delay_order = << >>
  /\ config_ \in Configs
  /\ pc = "plan"
  /\ pending_commands = 0
  /\ failures_allowed = 0
  /\ running_ = << >>
  /\ finished_ = << >>
  /\ build_result = "none"
  /\ err = ""
  /\ started = << >>
  /\ active = {}
  /\ reaped = [ e \in EdgesOf(Graphs[g]) |-> "none" ]
  /\ recorded = {}
  /\ last_finish = NoFinish
  /\ disk = {}

\* Builder::AddTarget(Node*), called by RunBuild for each target.
AddTarget ==
  /\ pc = "plan"
  /\ \E node \in todo :
       /\ todo' = todo \ { node }
       /\ IF in_edge(node) # 0 /\ outputs_ready_[in_edge(node)]
          THEN UNCHANGED << planVars, pc, err >>
          ELSE \E r \in { PlanAddTarget(PlanState, node) } :
               /\ SetPlan(r.ps)
               /\ IF ~r.ret /\ r.err
                  THEN /\ pc' = "done"
                       /\ err' = "missing and no known rule to make it"
                  ELSE UNCHANGED << pc, err >>
  /\ UNCHANGED << g, main, parse, last_node, path_dead, pm, cleanup, edges_, in_edge_, out_edges_, last_out, addr, deps_missing_, config_, pending_commands,
                  failures_allowed, running_, finished_, build_result,
                  started, active, reaped, recorded, last_finish, disk, logVars >>

\* RunBuild: AlreadyUpToDate, or the entry of Builder::Build.
EnterBuild ==
  /\ pc = "plan"
  /\ todo = {}
  /\ IF ~more_to_do(PlanState)
     THEN /\ pc' = "done"
          /\ err' = "no work to do"
          /\ UNCHANGED << pending_commands, failures_allowed >>
     ELSE /\ pc' = "build"
          /\ pending_commands' = 0
          /\ failures_allowed' = config_.failures_allowed
          /\ UNCHANGED err
  /\ UNCHANGED << g, main, parse, last_node, path_dead, pm, cleanup, edges_, in_edge_, out_edges_, last_out, addr, deps_missing_, todo, planVars, config_, running_,
                  finished_, build_result, started, active, reaped, recorded, last_finish,
                  disk, logVars >>

\* RealCommandRunner::CanRunMore / DryRunCommandRunner::CanRunMore.
\* load_below_cap is GetLoadAverage() < config_.max_load_average.
\* CanRunMore comparing with <= where the code has <.
CanRunMoreOffByOne(load_below_cap) ==
  IF config_.dry_run THEN TRUE
  ELSE /\ Len(running_) + Len(finished_) <= config_.parallelism
       /\ \/ running_ = << >>
          \/ config_.max_load_average <= 0
          \/ load_below_cap

CanRunMore(load_below_cap) ==
  IF config_.dry_run THEN TRUE
  ELSE /\ Len(running_) + Len(finished_) < config_.parallelism
       /\ \/ running_ = << >>
          \/ config_.max_load_average <= 0
          \/ load_below_cap

\* The first branch of the loop of Build without its test of the budget.
CanStartAnyBudget(load_below_cap) ==
  /\ CanRunMore(load_below_cap)
  /\ FindWork(PlanState) # 0

\* The first branch of the loop of Build is taken.
CanStart(load_below_cap) ==
  /\ failures_allowed # 0
  /\ CanRunMore(load_below_cap)
  /\ FindWork(PlanState) # 0

\* What the environment decides while a command is reaped and finished.
\*   status      exit status of the command
\*   extract_ok  whether Builder::ExtractDeps succeeds
\*   deps_nodes  the dependencies ExtractDeps discovers
\*   unchanged   the outputs whose mtime on disk equals the recorded one
\*   scan        verdict of RecomputeOutputsDirty per edge
\*   io          the disk or log operation that fails, if any
ScanVerdicts == { "dirty", "clean", "error" }

IoFailures ==
  { "none", "stat_output", "stat_input", "record_command", "stat_deps",
    "record_deps" }

\* The restat loop of FinishCommand over the outputs of the edge.  A Stat
\* error (io = "stat_output") hits the last output.
RECURSIVE RestatOutputs(_, _, _, _, _)
RestatOutputs(ps, edge, ch, o, node_cleaned) ==
  IF o > Len(G.outs[edge])
  THEN [ ps |-> ps, ret |-> TRUE, node_cleaned |-> node_cleaned ]
  ELSE IF ch.io = "stat_output" /\ o = Len(G.outs[edge])
  THEN [ ps |-> ps, ret |-> FALSE, node_cleaned |-> node_cleaned ]
  ELSE IF G.outs[edge][o] \in ch.unchanged /\ edge \in G.restat
  THEN LET r == CleanNode(ps, ch.scan, G.outs[edge][o]) IN
       IF ~r.ret
       THEN [ ps |-> r.ps, ret |-> FALSE, node_cleaned |-> node_cleaned ]
       ELSE RestatOutputs(r.ps, edge, ch, o + 1, TRUE)
  ELSE RestatOutputs(ps, edge, ch, o + 1, node_cleaned)

RECURSIVE RecordCommandOutputs(_, _, _, _)
RecordCommandOutputs(L, edge, mtime, o) ==
  IF o > Len(G.outs[edge]) THEN L
  ELSE RecordCommandOutputs(
         RecordCommand(L, G.outs[edge][o], edge, 0, 1, mtime), edge, mtime, o + 1)

\* BuildLog::RecordCommand(edge, ...) whose first write fails: the entry of
\* the first output is updated in memory and nothing reaches the file.
RecordCommandFailed(L, edge, mtime) ==
  [ L EXCEPT !.mem.entries_ = SetEntry(@, G.outs[edge][1], edge, 0, 1, mtime) ]

\* The final status of the command: a failed deps extraction turns a
\* success into a failure.
FinalStatus(edge, ch) ==
  IF edge \in G.deps /\ ~ch.extract_ok /\ ch.status = "ExitSuccess"
  THEN "ExitFailure" ELSE ch.status

\* FinishCommandFailed finishing the edge in the plan as if it had succeeded.
FinishCommandFailedAsSuccess(ps, L, edge, status) ==
  [ ps |-> EdgeFinished(ps, edge, "kEdgeSucceeded"), L |-> L, ret |-> TRUE,
    status |-> status, finished |-> TRUE, recorded |-> {} ]

\* Builder::FinishCommand, the branch of a failed command.
FinishCommandFailed(ps, L, edge, status) ==
  [ ps |-> EdgeFinished(ps, edge, "kEdgeFailed"), L |-> L, ret |-> TRUE,
    status |-> status, finished |-> TRUE, recorded |-> {} ]

\* Builder::FinishCommand, the rest: restat, Plan::EdgeFinished, the log.
\* The result of the restat (rs), the plan after EdgeFinished (ps1) and the
\* log after RecordCommand (L1) are bound as values, each computed once.
FinishCommandSucceeded(ps, L, edge, ch, status) ==
  CHOOSE r \in {
    LET output_mtime == IF rs.node_cleaned THEN 1 ELSE 2 IN
    IF ~rs.ret \/ (rs.node_cleaned /\ ch.io = "stat_input")
    THEN [ ps |-> rs.ps, L |-> L, ret |-> FALSE, status |-> status,
           finished |-> FALSE, recorded |-> {} ]
    ELSE
      CHOOSE r1 \in {
        IF ch.io = "record_command" /\ L.mem.log_file_
        THEN [ ps |-> ps1, L |-> RecordCommandFailed(L, edge, output_mtime),
               ret |-> FALSE, status |-> status, finished |-> TRUE,
               recorded |-> { << "RecordCommand", edge >> } ]
        ELSE
          CHOOSE r2 \in {
            LET rec1 == { << "RecordCommand", edge >> } IN
            IF edge \in G.deps /\ ~config_.dry_run
            THEN IF ch.io \in { "stat_deps", "record_deps" }
                 THEN [ ps |-> ps1, L |-> L1, ret |-> FALSE, status |-> status,
                        finished |-> TRUE,
                        recorded |-> IF ch.io = "record_deps"
                                     THEN rec1 \cup { << "RecordDeps", edge >> }
                                     ELSE rec1 ]
                 ELSE [ ps |-> ps1,
                        L |-> RecordDeps(L1, G.outs[edge][1], 2, ch.deps_nodes),
                        ret |-> TRUE, status |-> status, finished |-> TRUE,
                        recorded |-> rec1 \cup { << "RecordDeps", edge >> } ]
            ELSE [ ps |-> ps1, L |-> L1, ret |-> TRUE, status |-> status,
                   finished |-> TRUE, recorded |-> rec1 ] :
            L1 \in { RecordCommandOutputs(L, edge, output_mtime, 1) } } : TRUE :
        ps1 \in { EdgeFinished(rs.ps, edge, "kEdgeSucceeded") } } : TRUE :
    rs \in { IF config_.dry_run
             THEN [ ps |-> ps, ret |-> TRUE, node_cleaned |-> FALSE ]
             ELSE RestatOutputs(ps, edge, ch, 1, FALSE) } } : TRUE

\* FinishCommand writing the log before it looks at the status.
FinishCommandRecordsFirst(ps, L, edge, ch) ==
  LET status == FinalStatus(edge, ch)
      L1 == RecordCommandOutputs(L, edge, 2, 1)
  IN IF status # "ExitSuccess"
     THEN [ FinishCommandFailed(ps, L1, edge, status) EXCEPT
              !.recorded = { << "RecordCommand", edge >> } ]
     ELSE FinishCommandSucceeded(ps, L, edge, ch, status)

\* Builder::FinishCommand.  The result carries the plan, the log, the
\* return value and the final status of the command.
FinishCommand(ps, L, edge, ch) ==
  LET status == FinalStatus(edge, ch) IN
  IF status # "ExitSuccess"
  THEN FinishCommandFailed(ps, L, edge, status)
  ELSE FinishCommandSucceeded(ps, L, edge, ch, status)

\* The error FinishCommand leaves in err when it returns false: the text of
\* RealDiskInterface::Stat for the path that could not be examined, or of
\* the log that could not be written.
StatError(path) == "stat(" \o path \o "): Permission denied"
FinishCommandErr(edge, ch) ==
  IF ch.io = "stat_output" THEN StatError(G.outs[edge][Len(G.outs[edge])])
  ELSE IF ch.io = "stat_input" THEN StatError(G.ins[edge][1])
  ELSE IF ch.io = "record_command"
  THEN "Error writing to build log: No space left on device"
  ELSE IF ch.io = "stat_deps" THEN StatError(G.outs[edge][1])
  ELSE IF ch.io = "record_deps"
  THEN "Error writing to deps log: No space left on device"
  ELSE LET e == CHOOSE e \in Edges : ch.scan[e] = "error"
       IN StatError(G.outs[e][1])

\* The errors of FinishCommand.
IoErrors ==
  { StatError(path) : path \in Nodes }
  \cup { "Error writing to build log: No space left on device",
         "Error writing to deps log: No space left on device" }

\* The edges CleanNode can reach from the outputs of an edge.
RECURSIVE DownstreamOf(_, _, _)
DownstreamOf(gr, frontier, seen) ==
  LET next == { e \in EdgesOf(gr) :
                  \E f \in frontier :
                    \E o \in Range(gr.outs[f]) : o \in Range(gr.ins[e]) } \ seen
  IN IF next = {} THEN seen ELSE DownstreamOf(gr, next, seen \cup next)
Downstream(edge) == DownstreamOf(G, { edge }, {})

AllDirty == [ e \in Edges |-> "dirty" ]

DefaultChoice ==
  [ status |-> "ExitSuccess", extract_ok |-> TRUE, deps_nodes |-> << >>,
    unchanged |-> {}, scan |-> AllDirty, io |-> "none" ]

\* The disk and log operations of FinishCommand that may fail for an edge.
\* The stat of the inputs happens only after an output was found unchanged;
\* the other failures are considered for commands that changed every output.
IoFor(edge, unchanged) ==
  IF config_.dry_run THEN { "none" }
  ELSE IF unchanged # {} THEN { "none", "stat_input" }
  ELSE { "none", "stat_output", "record_command" }
       \cup (IF edge \in G.deps THEN { "stat_deps", "record_deps" } ELSE {})

\* The verdicts considered: any mix of dirty and clean, or one failing scan
\* among clean ones.
ScansFor(edge, unchanged) ==
  IF unchanged = {} THEN { AllDirty }
  ELSE LET down == Downstream(edge) IN
       { [ e \in Edges |-> IF e \in down THEN f[e] ELSE "dirty" ] :
           f \in [ down -> { "dirty", "clean" } ] }
       \cup
       { [ e \in Edges |-> IF e = x THEN "error"
                           ELSE IF e \in down THEN "clean" ELSE "dirty" ] :
           x \in down }

\* The choices that matter for the edge being finished.
Choices(edge) ==
  { [ DefaultChoice EXCEPT !.status = "ExitFailure" ],
    [ DefaultChoice EXCEPT !.status = "ExitInterrupted" ] }
  \cup (IF edge \in G.deps
        THEN { [ DefaultChoice EXCEPT !.extract_ok = FALSE ] } ELSE {})
  \cup UNION {
         { [ DefaultChoice EXCEPT !.unchanged = u, !.scan = sc, !.io = io,
                                  !.deps_nodes = d ] :
             sc \in ScansFor(edge, u), io \in IoFor(edge, u),
             d \in IF edge \in G.deps /\ ~config_.dry_run
                   THEN { << "foo.h" >> } ELSE { << >> } } :
         u \in IF edge \in G.restat /\ ~config_.dry_run
               THEN SUBSET Range(G.outs[edge]) ELSE { {} } }

\* Builder::Cleanup: RealCommandRunner::Abort clears the running set.
CleanupRunning == << >>

\* Node::mtime_ of the outputs: what the scan before the build found.
mtime_(node) == 1

\* Edge::GetUnescapedDepfile: the edges with a deps binding have a depfile.
GetUnescapedDepfile(edge) ==
  IF edge \in G.deps THEN G.outs[edge][1] \o ".d" ELSE ""

\* Edge::GetUnescapedRspfile: the response file of the edges that have one.
GetUnescapedRspfile(edge) ==
  IF edge \in G.rspfile THEN G.outs[edge][1] \o ".rsp" ELSE ""

\* The -d keeprsp debug flag is off.
g_keep_rsp == FALSE

\* Builder::StartEdge up to StartCommand: what it writes to the disk.  The
\* outputs of the manifests have no directory part, so MakeDirs finds
\* nothing to create; wrote tells whether WriteFile left the response file.
StartEdgeWrites(edge, wrote) ==
  IF GetUnescapedRspfile(edge) # "" /\ wrote
  THEN { << "WriteFile", GetUnescapedRspfile(edge) >> }
  ELSE {}

\* Builder::FinishCommand: the response file it removes, once the edge has
\* finished with success.
FinishCommandRemoves(edge, r) ==
  IF r.finished /\ r.status = "ExitSuccess"
     /\ GetUnescapedRspfile(edge) # "" /\ ~g_keep_rsp
  THEN { << "RemoveFile", GetUnescapedRspfile(edge) >> }
  ELSE {}

\* CommandRunner::GetActiveEdges: the edges of subproc_to_edge_, that is the
\* commands started and not yet returned by WaitForCommand; none for the
\* DryRunCommandRunner.
GetActiveEdges(running, finished) ==
  IF config_.dry_run THEN {} ELSE Range(running) \cup Range(finished)

\* What RealDiskInterface::Stat may return for the outputs of the edges
\* during Cleanup: -1 for an error, else the timestamp on disk.
StatResults(active_edges) ==
  LET outputs == UNION { Range(G.outs[e]) : e \in active_edges } IN
  { stat \in [ outputs -> -1 .. 2 ] :
      \A o \in outputs : stat[o] \in { -1, mtime_(o), mtime_(o) + 1 } }

\* Cleanup that removes the outputs of every active edge.
CleanupAll(c, active_edges, stat) ==
  [ n |-> c.n + 1, active_edges |-> active_edges, stat |-> stat,
    removed |-> c.removed
                \cup UNION { Range(G.outs[e]) : e \in active_edges }
                \cup ({ GetUnescapedDepfile(e) : e \in active_edges } \ { "" }),
    logged |-> c.logged \cup { o \in DOMAIN stat : stat[o] = -1 } ]

\* Builder::Cleanup, after GetActiveEdges and Abort: the loop over the
\* active edges and their outputs.
Cleanup(c, active_edges, stat) ==
  [ n |-> c.n + 1, active_edges |-> active_edges, stat |-> stat,
    removed |-> c.removed
                \cup UNION { { o \in Range(G.outs[e]) :
                                 GetUnescapedDepfile(e) # ""
                                   \/ mtime_(o) # stat[o] } :
                             e \in active_edges }
                \cup ({ GetUnescapedDepfile(e) : e \in active_edges } \ { "" }),
    logged |-> c.logged \cup { o \in DOMAIN stat : stat[o] = -1 } ]


\* Builder::Cleanup for the edges the runner reports active.
DoCleanup(active_edges) ==
  \E stat \in StatResults(active_edges) :
    cleanup' = Cleanup(cleanup, active_edges, stat)

\* One iteration of the loop of Build that starts an edge.
BuildStartEdge ==
  /\ pc = "build"
  /\ more_to_do(PlanState)
  /\ \E load_below_cap \in BOOLEAN : CanStart(load_below_cap)
  /\ LET edge == FindWork(PlanState)
         ps1 == [ PlanState EXCEPT !.ready_ = @ \ { edge } ]
     IN
     /\ started' = Append(started, edge)
     /\ IF is_phony(edge)
        THEN /\ SetPlan(EdgeFinished(ps1, edge, "kEdgeSucceeded"))
             /\ UNCHANGED << pc, pending_commands, running_, finished_,
                             build_result, err, active, cleanup, disk >>
        ELSE \E outcome \in IF config_.dry_run
                            THEN { "finished", "failed" }
                            ELSE { "running", "finished", "failed" } :
               /\ SetPlan(ps1)
               /\ \E wrote \in IF outcome # "failed" THEN { TRUE }
                                ELSE IF GetUnescapedRspfile(edge) # ""
                                THEN BOOLEAN ELSE { FALSE } :
                    disk' = disk \cup StartEdgeWrites(edge, wrote)
               /\ IF outcome = "failed"
                  THEN \* StartEdge returned false: Cleanup and return false
                       /\ pc' = "done"
                       /\ build_result' = "false"
                       /\ err' = "command failed"
                       /\ running_' = CleanupRunning
                       /\ DoCleanup(GetActiveEdges(running_, finished_))
                       /\ UNCHANGED << pending_commands, finished_, active >>
                  ELSE /\ pending_commands' = pending_commands + 1
                       /\ active' = active \cup { edge }
                       /\ IF outcome = "running"
                          THEN /\ running_' = Append(running_, edge)
                               /\ UNCHANGED finished_
                          ELSE /\ finished_' = Append(finished_, edge)
                               /\ UNCHANGED running_
                       /\ UNCHANGED << pc, build_result, err, cleanup >>
  /\ UNCHANGED << g, main, parse, last_node, path_dead, pm, edges_, in_edge_, out_edges_, last_out, addr, deps_missing_, todo, config_, failures_allowed,
                  reaped, recorded, last_finish, logVars >>

\* RealCommandRunner::WaitForCommand / DryRunCommandRunner::WaitForCommand:
\* the outcomes are an interrupt (edge 0) or a finished command, taken from
\* the head of finished_ or, when that is empty, moved there from running_
\* by SubprocessSet::DoWork.
WaitOutcomes ==
  IF finished_ # << >>
  THEN { [ edge |-> Head(finished_), running |-> running_,
           finished |-> Tail(finished_) ] }
  ELSE { [ edge |-> 0, running |-> running_, finished |-> finished_ ] }
       \cup
       { [ edge |-> running_[i],
           running |-> SubSeq(running_, 1, i - 1)
                       \o SubSeq(running_, i + 1, Len(running_)),
           finished |-> finished_ ] : i \in DOMAIN running_ }

\* One iteration of the loop of Build that reaps a finished command.
BuildReap ==
  /\ pc = "build"
  /\ more_to_do(PlanState)
  /\ \E load_below_cap \in BOOLEAN : ~CanStart(load_below_cap)
  /\ pending_commands > 0
  /\ \E w \in WaitOutcomes :
       IF w.edge = 0
       THEN \* WaitForCommand returned false
            /\ pc' = "done"
            /\ build_result' = "false"
            /\ err' = "interrupted by user"
            /\ running_' = CleanupRunning
            /\ DoCleanup(GetActiveEdges(running_, finished_))
            /\ finished_' = w.finished
            /\ UNCHANGED << planVars, pending_commands, failures_allowed,
                            active, reaped, recorded, last_finish, disk, logVars >>
       ELSE \E ch \in Choices(w.edge) :
              IF config_.dry_run /\ ch.status # "ExitSuccess" THEN FALSE
              ELSE IF ch.status = "ExitInterrupted"
              THEN /\ pc' = "done"
                   /\ build_result' = "false"
                   /\ err' = "interrupted by user"
                   /\ running_' = CleanupRunning
                   /\ DoCleanup(GetActiveEdges(w.running, w.finished))
                   /\ finished_' = w.finished
                   /\ reaped' = [ reaped EXCEPT ![w.edge] = "ExitInterrupted" ]
                   /\ UNCHANGED << planVars, pending_commands, failures_allowed,
                                   active, recorded, last_finish, disk,
                                   logVars >>
              ELSE \E r \in { FinishCommand(PlanState, LogState, w.edge, ch) } :
                   /\ pending_commands' = pending_commands - 1
                   /\ SetPlan(r.ps)
                   /\ SetLog(r.L)
                   /\ reaped' = [ reaped EXCEPT ![w.edge] = r.status ]
                   /\ recorded' = recorded \cup r.recorded
                   /\ disk' = disk \cup FinishCommandRemoves(w.edge, r)
                   /\ last_finish' = IF ch.unchanged = {} THEN NoFinish
                                      ELSE [ edge |-> w.edge,
                                             unchanged |-> ch.unchanged,
                                             scan |-> ch.scan ]
                   /\ active' = IF r.finished THEN active \ { w.edge } ELSE active
                   /\ finished_' = w.finished
                   /\ IF ~r.ret
                      THEN /\ pc' = "done"
                           /\ build_result' = "false"
                           /\ err' = FinishCommandErr(w.edge, ch)
                           /\ running_' = CleanupRunning
                           /\ DoCleanup(GetActiveEdges(w.running, w.finished))
                           /\ UNCHANGED failures_allowed
                      ELSE /\ running_' = w.running
                           /\ failures_allowed' =
                                IF r.status # "ExitSuccess" /\ failures_allowed # 0
                                THEN failures_allowed - 1
                                ELSE failures_allowed
                           /\ UNCHANGED << pc, build_result, err, cleanup >>
                   /\ UNCHANGED << written, damage, cut, lpc, nops, loads,
                                   load_ret, load_err, user, before >>
  /\ UNCHANGED << g, main, parse, last_node, path_dead, pm, edges_, in_edge_, out_edges_, last_out, addr, deps_missing_, todo, config_, started >>

\* The loop of Build can neither start nor reap anything.
BuildStuck ==
  /\ pc = "build"
  /\ more_to_do(PlanState)
  /\ \E load_below_cap \in BOOLEAN : ~CanStart(load_below_cap)
  /\ pending_commands = 0
  /\ pc' = "done"
  /\ build_result' = "false"
  /\ err' = IF failures_allowed = 0
            THEN IF config_.failures_allowed > 1
                 THEN "subcommands failed" ELSE "subcommand failed"
            ELSE IF failures_allowed < config_.failures_allowed
            THEN "cannot make progress due to previous errors"
            ELSE "stuck [this is a bug]"
  /\ UNCHANGED << g, main, parse, last_node, path_dead, pm, cleanup, edges_, in_edge_, out_edges_, last_out, addr, deps_missing_, todo, planVars, config_,
                  pending_commands, failures_allowed, running_, finished_,
                  started, active, reaped, recorded, last_finish, disk, logVars >>

\* The loop of Build ends: nothing more to do.
BuildReturn ==
  /\ pc = "build"
  /\ ~more_to_do(PlanState)
  /\ pc' = "done"
  /\ build_result' = "true"
  /\ UNCHANGED << g, main, parse, last_node, path_dead, pm, cleanup, edges_, in_edge_, out_edges_, last_out, addr, deps_missing_, todo, planVars, config_,
                  pending_commands, failures_allowed, running_, finished_, err,
                  started, active, reaped, recorded, last_finish, disk, logVars >>

\* std::string::find(t) != npos
Find(s, t) ==
  \E i \in 1 .. Len(s) - Len(t) + 1 : SubSeq(s, i, i + Len(t) - 1) = t

\* The value NinjaMain::RunBuild returns, once it has returned: 1 when a
\* target could not be added, 0 when there is no work to do, else according
\* to the value of Builder::Build and the text of its error.
RunBuild ==
  IF build_result = "none"
  THEN IF err = "no work to do" THEN 0 ELSE 1
  ELSE IF build_result = "false"
  THEN IF Find(err, "interrupted by user") THEN 2 ELSE 1
  ELSE 0

\* NinjaMain::OpenBuildLog has loaded the (absent) log and, unless this is a
\* dry run, opened it for writing.
NewLog == [ mem |-> EmptyLog, ids |-> NoIds, file |-> NoFile, hist |-> << >> ]

BuildLogInit ==
  /\ \E L1 \in { IF config_.dry_run THEN NewLog
                  ELSE OpenForWrite(NewLog, {}, {}) } :
       /\ blog = L1.mem
       /\ ids = L1.ids
       /\ file = L1.file
       /\ hist = L1.hist
  /\ written = [ entries_ |-> << >>, nodes_ |-> << >>, deps_ |-> << >>,
                 ids |-> NoIds ]
  /\ damage = "none"
  /\ cut = 0
  /\ lpc = IF config_.dry_run THEN "new" ELSE "write"
  /\ nops = 0
  /\ loads = 1
  /\ load_ret = "true"
  /\ load_err = ""
  /\ user = NoUser
  /\ before = NoBefore

Init == BuildInitVars /\ BuildLogInit

Next ==
  \/ AddTarget
  \/ EnterBuild
  \/ BuildStartEdge
  \/ BuildReap
  \/ BuildStuck
  \/ BuildReturn

Spec == Init /\ [][Next]_vars

\* The runs in which every command that is started runs and succeeds:
\* StartEdge does not fail, no command is interrupted or fails, and no
\* disk or log operation of FinishCommand fails, so that Build returns
\* false only from the branch of its loop that can neither start nor reap.
Succeeds ==
  /\ \A e \in Edges : reaped'[e] \in { "none", "ExitSuccess" }
  /\ build_result' = "false" =>
       err' \in { "subcommand failed", "subcommands failed",
                  "cannot make progress due to previous errors",
                  "stuck [this is a bug]" }

SuccessNext == Next /\ Succeeds

\* The builds considered for termination: the failure budget plays no part
\* when nothing fails, so -k 1 stands for all of them; the restat chain is
\* built for both of its targets, with the deps of its edges on record and
\* its edges in ascending address order.
SuccessInit ==
  /\ Init
  /\ config_.failures_allowed = FailuresAllowed(1)
  /\ g = 2 => /\ todo = Graphs[g].targets
              /\ deps_missing_ = {}
              /\ addr = [ e \in EdgesOf(Graphs[g]) |-> e ]

\* The loop of Build is sequential code that takes its next branch as long
\* as it has not returned, and WaitForCommand returns because every
\* running command finishes: weak fairness of each branch of the loop.
SuccessSpec ==
  /\ SuccessInit /\ [][SuccessNext]_vars
  /\ WF_vars(BuildStartEdge /\ Succeeds)
  /\ WF_vars(BuildReap /\ Succeeds)
  /\ WF_vars(BuildStuck)
  /\ WF_vars(BuildReturn)

(***************************************************************************)
(* The specification of the log on its own.                                *)
(***************************************************************************)
LogInitOf(gi, u) ==
  /\ LogInitVars
  /\ user = u
  /\ g = gi
  /\ GraphInit(Graphs[gi])
  /\ addr = [ e \in EdgesOf(Graphs[gi]) |-> e ]
  /\ dirty_ = [ x \in NodesOf(Graphs[gi]) |-> FALSE ]
  /\ outputs_ready_ = [ e \in EdgesOf(Graphs[gi]) |-> TRUE ]
  /\ deps_missing_ = {}
  /\ todo = {}
  /\ want_ = << >>
  /\ wanted_edges_ = 0
  /\ command_edges_ = 0
  /\ ready_ = {}
  /\ current_use_ = [ q \in Pools |-> 0 ]
  /\ delayed_ = [ q \in Pools |-> {} ]
  /\ delay_order = << >>
  /\ config_ = [ parallelism |-> 1, failures_allowed |-> 1,
                 max_load_average |-> 0, dry_run |-> FALSE ]
  /\ pc = "done"
  /\ pending_commands = 0
  /\ failures_allowed = 0
  /\ running_ = << >>
  /\ finished_ = << >>
  /\ build_result = "none"
  /\ err = ""
  /\ started = << >>
  /\ active = {}
  /\ reaped = [ e \in EdgesOf(Graphs[gi]) |-> "none" ]
  /\ recorded = {}
  /\ last_finish = NoFinish
  /\ disk = {}

LogInitFor(u) == LogInitOf(1, u) /\ pm = NoPathManager

LogInit == LogInitFor(NoUser)

LogNext ==
  \/ (LogOpenForWrite /\ UNCHANGED buildVars)
  \/ (LogRecordCommand /\ UNCHANGED buildVars)
  \/ (LogRecordDeps /\ UNCHANGED buildVars)
  \/ (LogClose /\ UNCHANGED buildVars)
  \/ (LogTruncate /\ UNCHANGED buildVars)
  \/ (LogForeignAppend /\ UNCHANGED buildVars)
  \/ (LogBadHeader /\ UNCHANGED buildVars)
  \/ (LogLoad /\ UNCHANGED buildVars)

LogSpec == LogInit /\ [][LogNext]_vars

(***************************************************************************)
(* The specification of recompaction: logs of large builds are written,    *)
(* loaded and recompacted, by the next OpenForWrite or by the recompact    *)
(* tool, for each BuildLogUser.                                            *)
(***************************************************************************)
\* The users considered: out2 may be dead (its edge has left the manifest);
\* none of the outputs, only out2, or both have a deps binding.
Users == [ dead : { {}, { "out2" } }, live : { {}, { "out2" }, Outputs } ]

CompactInit == \E u \in Users : LogInitFor(u)

CompactNext ==
  \/ (LogOpenForWrite /\ UNCHANGED buildVars)
  \/ (LogRecordCommand /\ UNCHANGED buildVars)
  \/ (LogRecordDeps /\ UNCHANGED buildVars)
  \/ (LogBulk /\ UNCHANGED buildVars)
  \/ (LogClose /\ UNCHANGED buildVars)
  \/ (LogLoad /\ UNCHANGED buildVars)
  \/ (LogRecompact /\ UNCHANGED buildVars)

CompactSpec == CompactInit /\ [][CompactNext]_vars

(***************************************************************************)
(* The specification of the construction of the graph: a caller makes      *)
(* edges and gives them inputs and outputs through State.                  *)
(***************************************************************************)
MaxSize == 5

StatePaths == { "x", "y" }

StateNow == [ edges_ |-> edges_, in_edge_ |-> in_edge_, out_edges_ |-> out_edges_ ]

SetState(S) ==
  /\ edges_' = S.edges_
  /\ in_edge_' = S.in_edge_
  /\ out_edges_' = S.out_edges_

\* The number of edges and of entries of their inputs_ and outputs_.
SizeOf(gr) ==
  gr.n + SumOver([ e \in 1 .. gr.n |-> Len(gr.ins[e]) + Len(gr.outs[e]) ],
                 1 .. gr.n)

stateRest ==
  << g, main, parse, path_dead, pm, cleanup, addr, dirty_, outputs_ready_, deps_missing_, todo, want_,
     wanted_edges_, command_edges_, ready_, current_use_, delayed_, delay_order, config_,
     pc, pending_commands, failures_allowed, running_, finished_,
     build_result, err, started, active, reaped, recorded, last_finish,
     disk, logVars >>

\* The spellings State is called with: the paths and another spelling of
\* the first.
StateSpellings == StatePaths \cup { "./x" }

StateAddEdge ==
  /\ SizeOf(edges_) < MaxSize
  /\ SetState(AddEdge(StateNow))
  /\ UNCHANGED << last_out, last_node, stateRest >>

StateAddIn ==
  /\ SizeOf(edges_) < MaxSize
  /\ \E edge \in 1 .. edges_.n, path \in StatePaths :
       SetState(AddIn(StateNow, edge, path))
  /\ UNCHANGED << last_out, last_node, stateRest >>

StateAddOut ==
  /\ \E edge \in 1 .. edges_.n, path \in StatePaths :
       \E r \in { AddOut(StateNow, edge, path) } :
         /\ SetState(r.S)
         /\ last_out' = [ edge |-> edge, path |-> path, ret |-> r.ret ]
  /\ UNCHANGED << last_node, stateRest >>

\* A call of State::GetNode.
StateGetNode ==
  /\ \E path \in StateSpellings :
       /\ SetState(GetNode(StateNow, path))
       /\ last_node' = [ op |-> "GetNode", path |-> path,
                         found |-> LookupNode(StateNow, path) ]
  /\ UNCHANGED << last_out, stateRest >>

\* A call of State::LookupNode.
StateLookupNode ==
  /\ \E path \in StateSpellings :
       last_node' = [ op |-> "LookupNode", path |-> path,
                      found |-> LookupNode(StateNow, path) ]
  /\ UNCHANGED << edges_, in_edge_, out_edges_, last_out, stateRest >>

StateInitFor(p) ==
  /\ pm = NoPathManager
  /\ edges_ = EmptyState.edges_
  /\ in_edge_ = EmptyState.in_edge_
  /\ out_edges_ = EmptyState.out_edges_
  /\ last_out = NoCall
  /\ cleanup = NoCleanup
  /\ path_dead = NoQuery
  /\ last_node = NoLookup
  /\ main = NoMain
  /\ parse = p
  /\ g = 0
  /\ addr = << >>
  /\ dirty_ = << >>
  /\ outputs_ready_ = << >>
  /\ deps_missing_ = {}
  /\ todo = {}
  /\ want_ = << >>
  /\ wanted_edges_ = 0
  /\ command_edges_ = 0
  /\ ready_ = {}
  /\ current_use_ = [ q \in Pools |-> 0 ]
  /\ delayed_ = [ q \in Pools |-> {} ]
  /\ delay_order = << >>
  /\ config_ = [ parallelism |-> 1, failures_allowed |-> 1,
                 max_load_average |-> 0, dry_run |-> FALSE ]
  /\ pc = "done"
  /\ pending_commands = 0
  /\ failures_allowed = 0
  /\ running_ = << >>
  /\ finished_ = << >>
  /\ build_result = "none"
  /\ err = ""
  /\ started = << >>
  /\ active = {}
  /\ reaped = << >>
  /\ recorded = {}
  /\ last_finish = NoFinish
  /\ disk = {}
  /\ LogInitVars
  /\ user = NoUser

StateInit == StateInitFor(NoParse)

StateNext ==
  \/ StateAddEdge
  \/ StateAddIn
  \/ StateAddOut

StateSpec == StateInit /\ [][StateNext]_vars

\* The specification of the nodes of the graph: the calls of State with
\* GetNode and LookupNode among them, for graphs of at most MaxNodeSize
\* edges, inputs and outputs.
MaxNodeSize == 3

NodeNext ==
  \/ (SizeOf(edges_) < MaxNodeSize /\ StateNext)
  \/ StateGetNode
  \/ StateLookupNode

NodeSpec == StateInit /\ [][NodeNext]_vars

(***************************************************************************)
(* The specification of the parser: ManifestParser::Parse reads build      *)
(* statements one after the other, until one fails.                        *)
(***************************************************************************)
MaxTokens == 4
MaxStatements == 2

\* The rules and bindings of the statements that are considered.
Bindings ==
  { [ rule_name |-> "phony", pool_name |-> "", deps_type |-> "" ],
    [ rule_name |-> "cc", pool_name |-> "", deps_type |-> "" ],
    [ rule_name |-> "cc", pool_name |-> "", deps_type |-> "gcc" ],
    [ rule_name |-> "cc", pool_name |-> "undefined", deps_type |-> "" ],
    [ rule_name |-> "undefined", pool_name |-> "", deps_type |-> "" ] }
PlainBindings ==
  { [ rule_name |-> "cc", pool_name |-> "", deps_type |-> "" ] }

\* The build statements with o outputs and i inputs.
StatementsOf(paths, binds, o, i) ==
  { [ outs |-> os, implicit_outs |-> io, ins |-> is, implicit |-> c[1],
      order_only |-> c[2], rule_name |-> b.rule_name,
      pool_name |-> b.pool_name, deps_type |-> b.deps_type ] :
    os \in [ 1 .. o -> paths ], io \in 0 .. o, is \in [ 1 .. i -> paths ],
    c \in { d \in (0 .. i) \X (0 .. i) : d[1] + d[2] <= i }, b \in binds }

\* The build statements of at most t paths: those over the paths x and y
\* with every kind of rule and binding, those with a path that evaluates to
\* the empty string, and the one without outputs.
Statements ==
  [ t \in 0 .. MaxTokens |->
      UNION { UNION { StatementsOf(StatePaths, Bindings, o, i)
                        \cup StatementsOf(StatePaths \cup { "" },
                                          PlainBindings, o, i) :
                      i \in 0 .. t - o } :
              o \in 1 .. t }
      \cup StatementsOf(StatePaths, PlainBindings, 0, 0) ]

ParseBuild ==
  /\ parse.ret
  /\ parse.n < MaxStatements
  /\ \E stmt \in Statements[MaxTokens - parse.tokens] :
       \E r \in { ParseEdge(StateNow, parse.P, stmt, parse.options) } :
         /\ SetState(r.S)
         /\ parse' = [ parse EXCEPT !.P = r.P, !.n = @ + 1, !.stmt = stmt,
                                    !.tokens = @ + Len(stmt.outs) + Len(stmt.ins),
                                    !.before = StateNow, !.edge = r.edge,
                                    !.filtered = r.filtered, !.ret = r.ret,
                                    !.err = r.err ]
  /\ UNCHANGED << last_out, last_node, g, main, path_dead, pm, cleanup, addr, dirty_, outputs_ready_, deps_missing_,
                  todo, want_, wanted_edges_, command_edges_, ready_,
                  current_use_, delayed_, delay_order, config_, pc, pending_commands,
                  failures_allowed, running_, finished_, build_result, err,
                  started, active, reaped, recorded, last_finish, disk, logVars >>

ParseInit == \E options \in Options : StateInitFor(NoParseFor(options))

ParseNext == ParseBuild

ParseSpec == ParseInit /\ [][ParseNext]_vars

\* The BUILD case of ManifestParser::Parse for a statement in which ReadPath
\* fails, up to the return of Parse when ParseEdge returns true: the lexer is
\* then at the start of the unfinished path and Parse reads on from there.
ParseLexError ==
  /\ parse.ret
  /\ parse.returned = "none"
  /\ parse.n < MaxStatements
  /\ \E stmt \in Statements[1], lex \in LexFailures :
       \E r \in { ParseEdgeLexed(StateNow, parse.P, stmt, parse.options,
                                 lex) } :
         \E rest \in { IF r.ret THEN Parse(TokensAt(lex), r.err)
                       ELSE [ ret |-> FALSE, err |-> r.err ] } :
           /\ SetState(r.S)
           /\ parse' = [ parse EXCEPT !.P = r.P, !.n = @ + 1, !.stmt = stmt,
                                      !.before = StateNow, !.edge = r.edge,
                                      !.filtered = r.filtered,
                                      !.ret = r.ret, !.err = r.err,
                                      !.lexed = lex,
                                      !.returned = IF rest.ret THEN "true"
                                                   ELSE "false" ]
  /\ UNCHANGED << last_out, last_node, g, main, path_dead, pm, cleanup, addr, dirty_, outputs_ready_, deps_missing_,
                  todo, want_, wanted_edges_, command_edges_, ready_,
                  current_use_, delayed_, delay_order, config_, pc, pending_commands,
                  failures_allowed, running_, finished_, build_result, err,
                  started, active, reaped, recorded, last_finish, disk, logVars >>

\* A statement of one path before the one whose lexing fails.
ParseFirst == parse.n = 0 /\ ParseBuild /\ parse'.tokens <= 1

LexNext == ParseFirst \/ ParseLexError

LexSpec == ParseInit /\ [][LexNext]_vars

(***************************************************************************)
(* The manifest loop of the front ends: real_main of ninja                 *)
(* (src/src/main/ninja_main.cc) and CommandBuild of majak                  *)
(* (src/src/majak_main.cc) (specification MainSpec).  status is the exit   *)
(* status of the process, -1 while it runs.                                *)
(***************************************************************************)
kCycleLimit == 100

mainRest ==
  << g, parse, last_node, path_dead, pm, cleanup, edges_, in_edge_,
     out_edges_, last_out, addr, dirty_, outputs_ready_, deps_missing_, todo,
     want_, wanted_edges_, command_edges_, ready_, current_use_, delayed_,
     delay_order, config_, pc, pending_commands, failures_allowed, running_,
     finished_, build_result, err, started, active, reaped, recorded,
     last_finish, disk, logVars >>

\* What one cycle may meet: Load fails, EnsureBuildDirExists or OpenBuildLog
\* fails, RebuildManifest returns true, RebuildManifest returns false with
\* an error, or the manifest is up to date and RunBuild runs.
CycleSteps ==
  { "load_failed", "no_build_dir", "no_build_log", "rebuilt",
    "rebuild_failed", "build" }

\* The values of NinjaMain::RunBuild.
RunBuildResults == { 0, 1, 2 }

\* The body of the loop, the same in both front ends.
Cycle(m, step, result) ==
  CASE step = "load_failed" -> [ m EXCEPT !.status = 1, !.msg = "load" ]
    [] step \in { "no_build_dir", "no_build_log" } ->
         [ m EXCEPT !.status = 1 ]
    [] step = "rebuilt" ->
         IF m.dry_run THEN [ m EXCEPT !.status = 0 ]
         ELSE [ m EXCEPT !.cycle = @ + 1 ]
    [] step = "rebuild_failed" -> [ m EXCEPT !.status = 1, !.msg = "rebuilding" ]
    [] step = "build" -> [ m EXCEPT !.status = result ]

\* A front end is started and enters its loop with cycle = 1.
MainStart ==
  /\ main.front = "none"
  /\ \E front \in { "ninja", "majak" }, dry_run \in BOOLEAN :
       main' = [ NoMain EXCEPT !.front = front, !.dry_run = dry_run,
                               !.cycle = 1 ]
  /\ UNCHANGED mainRest

\* real_main of ninja: one cycle of the loop.
NinjaCycle ==
  /\ main.front = "ninja" /\ main.status = -1
  /\ main.cycle <= kCycleLimit
  /\ \E step \in CycleSteps, result \in RunBuildResults :
       main' = Cycle(main, step, result)
  /\ UNCHANGED mainRest

\* real_main of ninja: the loop has ended.
NinjaStillDirty ==
  /\ main.front = "ninja" /\ main.status = -1
  /\ main.cycle > kCycleLimit
  /\ main' = [ main EXCEPT !.status = 1, !.msg = "still dirty" ]
  /\ UNCHANGED mainRest

\* CommandBuild of majak: one cycle of the loop.
MajakCycle ==
  /\ main.front = "majak" /\ main.status = -1
  /\ main.cycle <= kCycleLimit
  /\ \E step \in CycleSteps, result \in RunBuildResults :
       main' = Cycle(main, step, result)
  /\ UNCHANGED mainRest

\* CommandBuild of majak: the loop has ended; CommandBuild returns 0 and
\* real_main exits with the value returned.
MajakStillDirty ==
  /\ main.front = "majak" /\ main.status = -1
  /\ main.cycle > kCycleLimit
  /\ main' = [ main EXCEPT !.status = 0, !.msg = "still dirty" ]
  /\ UNCHANGED mainRest

MainNext ==
  \/ MainStart
  \/ NinjaCycle
  \/ NinjaStillDirty
  \/ MajakCycle
  \/ MajakStillDirty

MainSpec == LogInit /\ [][MainNext]_vars

(***************************************************************************)
(* NinjaMain as the BuildLogUser of a loaded manifest (specification       *)
(* DeadSpec).                                                              *)
(***************************************************************************)
\* How many calls of IsPathDead are followed.
MaxQueries == 2

\* What RealDiskInterface::Stat may return for a path: -1 for an error, 0 for
\* a file that does not exist, else its timestamp.
DiskStat == { -1, 0, 1 }

\* NinjaMain::IsPathDead, given what Stat returns for the path.
NinjaMainIsPathDead(S, mtime, s) ==
  IF ~LookupNode(S, s) \/ S.in_edge_[s] = 0 THEN FALSE
  ELSE mtime = 0

\* The paths recompaction may ask about: those of the manifest and those of
\* the log.
QueryPaths == Nodes \cup Range(LogPaths)

\* One call of NinjaMain::IsPathDead.
IsPathDeadCall ==
  /\ path_dead.n < MaxQueries
  /\ \E s \in QueryPaths, mtime \in DiskStat :
       path_dead' = [ n |-> path_dead.n + 1, s |-> s, mtime |-> mtime,
                      ret |-> NinjaMainIsPathDead(StateNow, mtime, s) ]
  /\ UNCHANGED << g, main, parse, last_node, pm, cleanup, edges_, in_edge_, out_edges_, last_out,
                  addr, dirty_, outputs_ready_, deps_missing_, todo, want_,
                  wanted_edges_, command_edges_, ready_, current_use_,
                  delayed_, delay_order, config_, pc, pending_commands, failures_allowed,
                  running_, finished_, build_result, err, started, active,
                  reaped, recorded, last_finish, disk, logVars >>

DeadInit ==
  \E gi \in DOMAIN Graphs : LogInitOf(gi, NoUser) /\ pm = NoPathManager

DeadNext == IsPathDeadCall

DeadSpec == DeadInit /\ [][DeadNext]_vars

(***************************************************************************)
(* The path manager (specification PathSpec): fs::path as the POSIX        *)
(* std::filesystem of the build implements it, NormalizePath, PathHash,    *)
(* PathEqual and PathManager.                                              *)
(***************************************************************************)
\* Whether the character at position i of the string is the directory
\* separator.
IsSep(s, i) == SubSeq(s, i, i) = "/"

\* The end of the file name that starts at position i.
RECURSIVE SkipName(_, _)
SkipName(s, i) ==
  IF i > Len(s) \/ IsSep(s, i) THEN i ELSE SkipName(s, i + 1)

\* The end of the run of separators that starts at position i.
RECURSIVE SkipSeps(_, _)
SkipSeps(s, i) ==
  IF i <= Len(s) /\ IsSep(s, i) THEN SkipSeps(s, i + 1) ELSE i

\* The file names of a path from position i on, where a file name starts:
\* a run of separators counts once, and a path that ends in a separator
\* after a file name has an empty last element.
RECURSIVE Filenames(_, _)
Filenames(s, i) ==
  IF i > Len(s) THEN << >>
  ELSE LET j == SkipName(s, i)
           k == SkipSeps(s, j)
       IN  << SubSeq(s, i, j - 1) >> \o
           (IF j > Len(s) THEN << >>
            ELSE IF k > Len(s) THEN << "" >>
            ELSE Filenames(s, k))

\* fs::path::begin() .. end(): the elements of a path, the root directory
\* first when the path has one.
Elements(path) ==
  IF path = "" THEN << >>
  ELSE IF IsSep(path, 1) THEN << "/" >> \o Filenames(path, SkipSeps(path, 1))
  ELSE Filenames(path, 1)

\* fs::path::is_relative(): the path has no root directory.
is_relative(path) == path = "" \/ ~IsSep(path, 1)

\* fs::path::has_filename().
has_filename(path) == path # "" /\ ~IsSep(path, Len(path))

\* fs::path::operator/=.
PathAppend(result, c) ==
  IF ~is_relative(c) THEN c
  ELSE IF has_filename(result) THEN result \o "/" \o c
  ELSE result \o c

\* The loop of NormalizePath over the elements of the path.
RECURSIVE PushComponents(_, _, _)
PushComponents(result_components, elements, i) ==
  IF i > Len(elements) THEN result_components
  ELSE LET c == elements[i] IN
       IF c = ".." /\ result_components # << >>
       THEN PushComponents(SubSeq(result_components, 1,
                                  Len(result_components) - 1),
                           elements, i + 1)
       ELSE IF c = "."
       THEN PushComponents(result_components, elements, i + 1)
       ELSE PushComponents(result_components \o << c >>, elements, i + 1)

\* The loop of NormalizePath that joins the components.
RECURSIVE JoinComponents(_, _, _)
JoinComponents(result, result_components, i) ==
  IF i > Len(result_components) THEN result
  ELSE JoinComponents(PathAppend(result, result_components[i]),
                      result_components, i + 1)

\* The loop of CanonicalizePath over the components: "." and the empty
\* components of repeated separators are dropped, ".." pops the component
\* before it unless there is none or it is ".." itself.
RECURSIVE CanonComponents(_, _, _)
CanonComponents(components, elements, i) ==
  IF i > Len(elements) THEN components
  ELSE LET c    == elements[i]
           last == IF components = << >> THEN ""
                   ELSE components[Len(components)]
       IN  IF c = "."
           THEN CanonComponents(components, elements, i + 1)
           ELSE IF c = ".." /\ last \notin { "", "..", "/" }
           THEN CanonComponents(SubSeq(components, 1, Len(components) - 1),
                                elements, i + 1)
           ELSE CanonComponents(Append(components, c), elements, i + 1)

\* CanonicalizePath: the canonical form of a path that is not empty.
CanonicalizePath(path) ==
  JoinComponents("", CanonComponents(<< >>, Elements(path), 1), 1)

\* NormalizePath.
NormalizePath(base_dir, path) ==
  JoinComponents("",
    PushComponents(IF is_relative(path) THEN Elements(base_dir) ELSE << >>,
                   Elements(path), 1), 1)

\* uint32_t values are pairs << high 16 bits, low 16 bits >>.
U32(hi, lo) == << hi, lo >>

\* The product of two 16-bit values, as a uint32_t.
Mul16(x, y) ==
  LET X == (x % 256) * y
      Y == (x \div 256) * y
      t == X + (Y % 256) * 256
  IN  U32((t \div 65536) + (Y \div 256), t % 65536)

\* uint32_t multiplication.
Mul32(a, b) ==
  LET p == Mul16(a[2], b[2]) IN
  U32((p[1] + Mul16(a[1], b[2])[2] + Mul16(a[2], b[1])[2]) % 65536, p[2])

\* Bitwise exclusive or.
RECURSIVE Xor(_, _)
Xor(x, y) ==
  IF x = 0 THEN y
  ELSE IF y = 0 THEN x
  ELSE ((x + y) % 2) + 2 * Xor(x \div 2, y \div 2)

Xor32(a, b) == U32(Xor(a[1], b[1]), Xor(a[2], b[2]))

\* uint32_t >> r.
Shr32(a, r) ==
  IF r >= 16 THEN U32(0, a[1] \div (2 ^ (r - 16)))
  ELSE U32(a[1] \div (2 ^ r),
           (a[2] \div (2 ^ r)) + (a[1] % (2 ^ r)) * (2 ^ (16 - r)))

kSeed == U32(57034, 64429)

\* The byte of a character of the path alphabet.
Byte(s, i) ==
  LET c == SubSeq(s, i, i) IN
  IF c = "/" THEN 47 ELSE IF c = "." THEN 46 ELSE IF c = "a" THEN 97
  ELSE IF c = "b" THEN 98 ELSE 120

\* const uint32_t m of MurmurHash2.
kM == U32(23505, 59797)

\* One turn of the while loop of MurmurHash2: k is the word of four bytes,
\* read as the little-endian uint32_t that memcpy gives.
MurmurWord(h, k) ==
  CHOOSE r \in
    { Xor32(hm, k3) :
        hm \in { Mul32(h, kM) },
        k3 \in { Mul32(k2, kM) :
                 k2 \in { Xor32(k1, Shr32(k1, 24)) :
                          k1 \in { Mul32(k, kM) } } } } : TRUE

\* The while loop of MurmurHash2, from the byte at position i on.
RECURSIVE MurmurWords(_, _, _)
MurmurWords(h, key, i) ==
  IF Len(key) - i + 1 < 4 THEN h
  ELSE CHOOSE r \in
         { MurmurWords(hn, key, i + 4) :
             hn \in { MurmurWord(h, U32(Byte(key, i + 3) * 256
                                          + Byte(key, i + 2),
                                        Byte(key, i + 1) * 256
                                          + Byte(key, i))) } } : TRUE

\* The switch of MurmurHash2 over the last len % 4 bytes.
MurmurTail(h, key) ==
  LET rest == Len(key) % 4
      d    == Len(key) - rest
  IN  IF rest = 0 THEN h
      ELSE CHOOSE r \in
             { Mul32(h3, kM) :
                 h3 \in { Xor32(h2, U32(0, Byte(key, d + 1))) :
                   h2 \in { IF rest >= 2
                            THEN Xor32(h1, U32(0, Byte(key, d + 2) * 256))
                            ELSE h1 :
                     h1 \in { IF rest = 3
                              THEN Xor32(h, U32(Byte(key, d + 3), 0))
                              ELSE h } } } } : TRUE

\* The last three statements of MurmurHash2.
MurmurFinal(h) ==
  CHOOSE r \in
    { Xor32(h2, Shr32(h2, 15)) :
        h2 \in { Mul32(h1, kM) :
                 h1 \in { Xor32(h, Shr32(h, 13)) } } } : TRUE

\* MurmurHash2 of the bytes of a string.
MurmurHash2(key, seed) ==
  CHOOSE r \in
    { MurmurFinal(ht) :
        ht \in { MurmurTail(hw, key) :
                 hw \in { MurmurWords(h, key, 1) :
                          h \in { Xor32(seed, U32(0, Len(key))) } } } } : TRUE

\* The loop of PathHash over the elements after the first.
RECURSIVE HashElements(_, _, _)
HashElements(result, elements, i) ==
  IF i > Len(elements) THEN result
  ELSE CHOOSE r \in
         { HashElements(h, elements, i + 1) :
             h \in { MurmurHash2(elements[i], g0) :
                       g0 \in { MurmurHash2("", result) } } } : TRUE

\* PathHash::operator().
PathHash(base_dir_, s) ==
  LET p == Elements(NormalizePath(base_dir_, s)) IN
  IF p = << >> THEN MurmurHash2(s, kSeed)
  ELSE CHOOSE r \in { HashElements(h, p, 2) :
                        h \in { MurmurHash2(p[1], kSeed) } } : TRUE

\* PathEqual::operator().
PathEqual(base_dir_, s1, s2) ==
  Elements(NormalizePath(base_dir_, s1)) =
    Elements(NormalizePath(base_dir_, s2))

\* std::nullopt, as LookupId returns it.
nullopt == -1

\* PathManager::LookupId: unordered_map::find compares the stored hash code
\* of an entry with the hash of the key, then the two with PathEqual.
LookupId(P, path) ==
  LET h    == PathHash(P.base_dir_, path)
      hits == { i \in DOMAIN P.path_index_ :
                  /\ P.path_index_[i].hash = h
                  /\ PathEqual(P.base_dir_, P.path_index_[i].first, path) }
  IN  IF hits = {} THEN nullopt
      ELSE P.path_index_[CHOOSE i \in hits : TRUE].second

\* PathManager::GetId: the manager after the call and the id returned.
GetId(P, path) ==
  LET found == LookupId(P, path) IN
  IF found # nullopt THEN [ P |-> P, id |-> found ]
  ELSE LET id == Len(P.paths_) IN
       [ P  |-> [ P EXCEPT !.paths_ = Append(@, path),
                           !.path_index_ =
                             Append(@, [ first  |-> path, second |-> id,
                                         hash   |-> PathHash(P.base_dir_,
                                                             path) ]) ],
         id |-> id ]

\* How many components the first path has at most, and the second.
MaxComponents == 3
MaxComponents2 == 2

\* How many calls are followed.
MaxCalls == 2

\* What stands between the separators of the paths.
PathNames == { "a", ".", "..", "" }

\* The strings of k names joined by separators.
RECURSIVE Joined(_)
Joined(k) ==
  IF k = 1 THEN PathNames
  ELSE { s \o "/" \o c : s \in Joined(k - 1), c \in PathNames }

PathStrings(k) == UNION { Joined(i) : i \in 1 .. k }

\* The base directories: two of path_test_values, and one that ends in a
\* separator.
BaseDirs == { ".", "/a", "/a/" }

\* Every variable but pm.
pathRest ==
  << g, main, parse, last_node, path_dead, cleanup, edges_, in_edge_, out_edges_, last_out,
     addr, dirty_, outputs_ready_, deps_missing_, todo, want_, wanted_edges_,
     command_edges_, ready_, current_use_, delayed_, delay_order, config_, pc,
     pending_commands, failures_allowed, running_, finished_, build_result,
     err, started, active, reaped, recorded, last_finish, disk, logVars >>

Called(op, arg, ret) ==
  pm' = [ pm EXCEPT !.n = @ + 1, !.op = op, !.arg = arg, !.ret = ret ]

\* A call of NormalizePath.
NormalizePathCall ==
  /\ pm.n < MaxCalls
  /\ Called("NormalizePath", << pm.p1 >>, NormalizePath(pm.base_dir_, pm.p1))
  /\ UNCHANGED pathRest

\* A call of PathEqual::operator().
PathEqualCall ==
  /\ pm.n < MaxCalls
  /\ Called("PathEqual", << pm.p1, pm.p2 >>,
            PathEqual(pm.base_dir_, pm.p1, pm.p2))
  /\ UNCHANGED pathRest

\* The calls of PathHash::operator() for the two paths.
PathHashCall ==
  /\ pm.n < MaxCalls
  /\ Called("PathHash", << pm.p1, pm.p2 >>,
            << PathHash(pm.base_dir_, pm.p1), PathHash(pm.base_dir_, pm.p2) >>)
  /\ UNCHANGED pathRest

\* A call of PathManager::LookupId.
LookupIdCall ==
  /\ pm.n < MaxCalls
  /\ \E path \in { pm.p1, pm.p2 } :
       Called("LookupId", << path >>, LookupId(pm, path))
  /\ UNCHANGED pathRest

\* A call of PathManager::GetId.
GetIdCall ==
  /\ pm.n < MaxCalls
  /\ \E path \in { pm.p1, pm.p2 } :
       \E r \in { GetId(pm, path) } :
         pm' = [ r.P EXCEPT !.n = @ + 1, !.op = "GetId", !.arg = << path >>,
                            !.ret = r.id ]
  /\ UNCHANGED pathRest

PathInit ==
  \E base_dir \in BaseDirs, p1 \in PathStrings(MaxComponents),
     p2 \in PathStrings(MaxComponents2) :
    /\ LogInitOf(1, NoUser)
    /\ pm = PathManagerFor(base_dir, p1, p2)

PathNext ==
  \/ NormalizePathCall
  \/ PathEqualCall
  \/ PathHashCall
  \/ LookupIdCall
  \/ GetIdCall

PathSpec == PathInit /\ [][PathNext]_vars

(***************************************************************************)
(* Properties of the build (specification Spec).                           *)
(***************************************************************************)
\* The edges whose command was reaped with the given status.
ReapedWith(status) == { e \in Edges : reaped[e] = status }

\* The errors Build returns with when it can neither start nor reap.
StuckErrors ==
  { "subcommand failed", "subcommands failed",
    "cannot make progress due to previous errors", "stuck [this is a bug]" }

\* C1: whenever the build loop takes an edge from FindWork and starts it,
\* every input of that edge, order-only inputs included, is a source file
\* or the output of an edge whose outputs_ready is already set.
C1_StartedAfterProducers ==
  [][ Len(started') > Len(started) =>
        LET e == started'[Len(started')] IN
        \A i \in 1 .. Len(G.ins[e]) :
          \/ in_edge(G.ins[e][i]) = 0
          \/ outputs_ready_[in_edge(G.ins[e][i])] ]_vars

\* An edge with an order-only input made by another edge has been started
\* after that edge ran in this build.
C1_Witness ==
  \E e \in Range(started) :
    /\ G.oo[e] > 0
    /\ \E i \in Len(G.ins[e]) - G.oo[e] + 1 .. Len(G.ins[e]) :
         /\ in_edge(G.ins[e][i]) # 0
         /\ reaped[in_edge(G.ins[e][i])] = "ExitSuccess"

\* C2: in every pool of depth > 0, the weights of the edges of the pool that
\* are in the ready set or have been handed out and are not finished yet
\* sum up to at most the depth.
C2_PoolDepth ==
  \A q \in Pools :
    depth_[q] > 0 =>
      SumOver([ e \in Edges |-> weight(e) ],
              { e \in ready_ \cup active : G.pool[e] = q }) <= depth_[q]

\* Five edges were scheduled at once into the pool of depth 2: two are ready
\* or running, the others wait in the queue of the pool.
C2_Witness ==
  /\ Cardinality({ e \in ready_ \cup active : G.pool[e] = "p" }) = 2
  /\ Cardinality(delayed_["p"]) >= 2
  /\ active # {}

\* C3: wanted_edges_ is the number of entries of want_ that are not
\* kWantNothing, in every state of the planning and of the build loop.
C3_WantedEdges ==
  wanted_edges_ =
    Cardinality({ e \in DOMAIN want_ : want_[e] # "kWantNothing" })

\* CleanNode has taken an edge out of the wanted ones while others remain;
\* the stat of the inputs that follows has failed and ended the build.
C3_Witness ==
  /\ g = 2
  /\ pc = "done"
  /\ err \in IoErrors
  /\ 3 \in DOMAIN want_
  /\ want_[3] = "kWantNothing"
  /\ wanted_edges_ > 0

\* C4: once a command has been reaped with a status other than success,
\* Build never returns true and the edge stays wanted; when Build ends
\* because nothing can be started or reaped, the error is "subcommand(s)
\* failed" if as many commands failed as the budget allowed and "cannot make
\* progress due to previous errors" if fewer did.
C4_FailedBuildFails ==
  LET failed == ReapedWith("ExitFailure") \cup ReapedWith("ExitInterrupted")
      nfailed == Cardinality(ReapedWith("ExitFailure"))
      left == IF nfailed >= config_.failures_allowed THEN 0
              ELSE config_.failures_allowed - nfailed
  IN failed # {} =>
       /\ build_result # "true"
       /\ \A e \in failed : e \in DOMAIN want_ /\ want_[e] # "kWantNothing"
       /\ pc = "done" => build_result = "false"
       /\ (pc = "done" /\ err \in StuckErrors) =>
            /\ left = failures_allowed
            /\ left = 0 => err \in { "subcommand failed", "subcommands failed" }
            /\ left > 0 => err = "cannot make progress due to previous errors"

\* Build has failed with budget left, after one failed command.
C4_Witness ==
  /\ pc = "done"
  /\ build_result = "false"
  /\ err = "cannot make progress due to previous errors"
  /\ ReapedWith("ExitFailure") # {}
  /\ ReapedWith("ExitSuccess") # {}

\* C5: an edge is started only while fewer commands have failed than the
\* budget allows; when Build returns for another reason than an interrupt or
\* an I/O error, every command it started has been reaped and finished; and
\* under -k 0 the budget is never used up.
C5_StartOnlyWithBudget ==
  /\ [][ Len(started') > Len(started) =>
           /\ failures_allowed > 0
           /\ Cardinality(ReapedWith("ExitFailure")) < config_.failures_allowed
      ]_vars
  /\ [](/\ (pc = "done" /\ err \in StuckErrors \cup { "" }) =>
             /\ active = {}
             /\ running_ = << >> /\ finished_ = << >>
             /\ pending_commands = 0
             /\ \A i \in DOMAIN started :
                  is_phony(started[i]) \/ reaped[started[i]] # "none"
        /\ (/\ config_.failures_allowed = FailuresAllowed(0)
            /\ pc = "build" \/ build_result # "none") =>
             /\ failures_allowed > 0
             /\ err \notin { "subcommand failed", "subcommands failed" })

\* The budget of two failures is used up while an edge is ready to start,
\* and the command that was running at the second failure has been reaped.
C5_Witness ==
  /\ pc = "done"
  /\ err = "subcommands failed"
  /\ ready_ # {}
  /\ Cardinality(ReapedWith("ExitFailure")) = 2
  /\ failures_allowed = 0

\* C6: with the real command runner, the commands running plus the
\* commands finished and not reaped yet never exceed config.parallelism.
C6_Parallelism ==
  ~config_.dry_run =>
    /\ Len(running_) + Len(finished_) <= config_.parallelism
    /\ pc = "build" => pending_commands = Len(running_) + Len(finished_)

\* As many commands as allowed are in flight and another edge is ready.
C6_Witness ==
  /\ ~config_.dry_run
  /\ pc = "build"
  /\ config_.parallelism = MaxParallelism
  /\ Len(running_) + Len(finished_) = config_.parallelism
  /\ ready_ # {}

\* C7: RecordCommand and RecordDeps have been called only for edges whose
\* command was reaped with success, and every entry and every deps record
\* of the log, in memory and in the file, belongs to an output of such an
\* edge.
C7_OnlyCompletedEdgesRecorded ==
  LET ok(path) == path \in Nodes /\ in_edge(path) # 0
                  /\ reaped[in_edge(path)] = "ExitSuccess"
      clean(entries, nodes, deps) ==
        /\ \A path \in DOMAIN entries : ok(path)
        /\ \A i \in DOMAIN deps : deps[i].present => ok(nodes[i])
  IN /\ \A r \in recorded : reaped[r[2]] = "ExitSuccess"
     /\ clean(blog.entries_, blog.nodes_, blog.deps_)
     /\ \A i \in DOMAIN hist :
          clean(hist[i].entries_, hist[i].nodes_, hist[i].deps_)

\* The build was interrupted while a command ran, after one command had
\* failed and another had been recorded.
C7_Witness ==
  /\ pc = "done"
  /\ err = "interrupted by user"
  /\ active # {}
  /\ recorded # {}
  /\ ReapedWith("ExitFailure") # {}

\* The edge is in the plan and wanted.
Wanted(w, c) == c \in DOMAIN w /\ w[c] # "kWantNothing"

\* The step finishes, with success, a restat edge all of whose outputs
\* have kept their mtime.
RestatStep ==
  /\ last_finish'.edge # 0
  /\ reaped[last_finish'.edge] = "none"
  /\ last_finish'.edge \in G.restat
  /\ reaped'[last_finish'.edge] = "ExitSuccess"
  /\ last_finish'.unchanged = Range(G.outs[last_finish'.edge])
  /\ err' \notin IoErrors

\* The non-order-only inputs of edge c are clean once the nodes N are.
InputsClean(c, N) ==
  \A i \in 1 .. Len(G.ins[c]) - G.oo[c] :
    ~dirty_[G.ins[c][i]] \/ G.ins[c][i] \in N

\* The wanted edges among E that become clean once the nodes N are, their
\* outputs becoming clean in turn: K is the set found so far.
RECURSIVE CleanClosure(_, _, _)
CleanClosure(N, K, E) ==
  LET more == { c \in E \ K :
                 /\ Wanted(want_, c)
                 /\ Range(G.ins[c]) \cap N # {}
                 /\ InputsClean(c, N) }
  IN IF more = {} THEN K
     ELSE CleanClosure(N \cup UNION { Range(G.outs[c]) : c \in more },
                       K \cup more, E)

\* C13, as stated: after a successful restat edge that left all its outputs
\* unchanged, every wanted consumer whose other inputs are clean is marked
\* not wanted.
C13_AsStated ==
  [][ RestatStep =>
        \A c \in Edges :
          ( /\ Wanted(want_, c)
            /\ Range(G.ins[c]) \cap last_finish'.unchanged # {}
            /\ InputsClean(c, last_finish'.unchanged) )
          => ~Wanted(want_', c) ]_vars

\* C13, amended: after a successful restat edge that left all its outputs
\* unchanged, the wanted consumers, direct and transitive, whose
\* non-order-only inputs are all clean, that did not fail to load their
\* deps and whose outputs the scan finds not dirty, and no other edges, are
\* marked not wanted, wanted_edges_ going down by one for each and
\* command_edges_ by one for each that is not phony.  Only wanted edges are
\* started and an edge that is not wanted does not become wanted during the
\* build, so these edges are never started.
C13_Restat ==
  /\ [][ RestatStep =>
          LET e == last_finish'.edge
              K == CleanClosure(
                     Range(G.outs[e]), {},
                     { c \in Edges : c \notin deps_missing_
                                      /\ last_finish'.scan[c] = "clean" })
          IN /\ \A c \in K : ~Wanted(want_', c)
             /\ { c \in Edges : Wanted(want_, c) /\ ~Wanted(want_', c) }
                  = K \cup { e }
             /\ wanted_edges_' = wanted_edges_ - Cardinality(K) - 1
             /\ command_edges_' = command_edges_ - Cardinality(K \ G.phony)
             /\ K \cap Range(started') = {} ]_vars
  /\ [][ Len(started') > Len(started) =>
          Wanted(want_, started'[Len(started')]) ]_vars
  /\ [][ pc = "build" =>
          \A c \in Edges : ~Wanted(want_, c) => ~Wanted(want_', c) ]_vars

\* In the restat chain the first edge left both outputs unchanged, the scan
\* found its consumers clean, and the build ended well without starting
\* them.
C13_Witness ==
  /\ g = 2
  /\ last_finish.edge = 1
  /\ last_finish.unchanged = { "mid", "mid2" }
  /\ build_result = "true"
  /\ reaped[1] = "ExitSuccess"
  /\ 2 \notin Range(started) /\ 3 \notin Range(started)
  /\ last_finish.scan[2] = "clean" /\ last_finish.scan[3] = "clean"
  /\ wanted_edges_ = 0

(***************************************************************************)
(* Properties of the log (specification LogSpec).                          *)
(***************************************************************************)
\* The file holds what the writer wrote: it was not damaged since it was
\* last closed.
Intact == damage = "none" \/ loads >= 2

\* The end of the last record that lies completely before the damage.
LastEnd == IF hist = << >> THEN 0 ELSE hist[Len(hist)].end

\* The state the records of the history produce.
Survivors ==
  IF hist = << >>
  THEN [ entries_ |-> << >>, nodes_ |-> << >>, deps_ |-> << >> ]
  ELSE [ entries_ |-> hist[Len(hist)].entries_,
         nodes_ |-> hist[Len(hist)].nodes_,
         deps_ |-> hist[Len(hist)].deps_ ]

\* The state of the log in memory.
Loaded == [ entries_ |-> blog.entries_, nodes_ |-> blog.nodes_, deps_ |-> blog.deps_ ]

\* Every path entry has the id of its position.
DenseIds ==
  /\ \A i \in DOMAIN blog.nodes_ : ids[blog.nodes_[i]] = i - 1
  /\ \A p \in Paths : ids[p] >= 0 => blog.nodes_[ids[p] + 1] = p

\* C8: a Load of a file that holds what RecordCommand and RecordDeps wrote
\* before Close succeeds without a warning and gives the entries, the node
\* list, the ids and the deps the writer had in memory at Close.
C8_RoundTrip ==
  (lpc = "loaded" /\ Intact) =>
    /\ load_ret = "true"
    /\ load_err = ""
    /\ blog.entries_ = written.entries_
    /\ blog.nodes_ = written.nodes_
    /\ blog.deps_ = written.deps_
    /\ ids = written.ids

\* A log with a command entry and a deps record of two inputs was loaded.
C8_Witness ==
  /\ lpc = "loaded"
  /\ Intact
  /\ DOMAIN blog.entries_ # {}
  /\ \E i \in DOMAIN blog.deps_ :
       blog.deps_[i].present /\ Len(blog.deps_[i].nodes) = 2

\* The numbers of nodes and of deps records Load finds in the first k bytes.
NodeCount(k) == Len(Load([ file EXCEPT !.data = SubSeq(@, 1, k) ]).L.mem.nodes_)
DepsCount(k) ==
  LET d == Load([ file EXCEPT !.data = SubSeq(@, 1, k) ]).L.mem.deps_
  IN Cardinality({ i \in DOMAIN d : d[i].present })

\* C9: Load of a file cut at any offset succeeds and gives exactly the
\* state of the records that lie completely before the cut; and for a file
\* as written, the nodes and the deps records Load finds in its first k
\* bytes do not grow when k shrinks.
C9_RecoverySafety ==
  /\ (lpc = "loaded" /\ damage = "cut" /\ loads = 1) =>
       /\ load_ret = "true"
       /\ Loaded = Survivors
  /\ (lpc = "closed" /\ damage = "none" /\ file.exists) =>
       \A k \in 1 .. Len(file.data) - 1 :
         /\ Load([ file EXCEPT !.data = SubSeq(@, 1, k) ]).ret = "true"
         /\ NodeCount(k) <= NodeCount(k + 1)
         /\ DepsCount(k) <= DepsCount(k + 1)

\* A file cut in the middle of a record was loaded: a deps record survived
\* and a later path entry did not.
C9_Witness ==
  /\ lpc = "loaded" /\ damage = "cut" /\ loads = 1
  /\ LastEnd < cut
  /\ \E i \in DOMAIN blog.deps_ : blog.deps_[i].present
  /\ Len(blog.nodes_) < Len(written.nodes_)

\* Load has met, after the last complete record, bytes that are no record:
\* a short read or a record that fails its check.
MetBadRecord ==
  /\ lpc = "loaded" /\ loads = 1
  /\ \/ damage = "cut" /\ LastEnd < cut
     \/ damage \in { "foreign", "checksum" }

\* What C10 says Load has done then.
Recovered ==
  /\ load_ret = "true"
  /\ load_err = "premature end of file; recovering"
  /\ file.exists
  /\ Len(file.data) = LastEnd
  /\ Loaded = Survivors

\* C10, as stated: whenever Load meets a short read or a record that fails
\* verification, it truncates the file to the end of the last complete
\* record and returns success with a warning that ends in "; recovering".
C10_AsStated == MetBadRecord => Recovered

\* C10, amended: when Load meets a short read or a record that fails its
\* check after a complete version entry, it truncates the file to the end
\* of the last complete record and returns success with the warning
\* "...; recovering", with only the surviving records in memory; the records
\* appended afterwards get ids that continue the surviving ones and the
\* next Load reads everything back.  (A short read within the version
\* entry makes Load delete the file, with a warning "...; starting over".)
C10_Recovering ==
  /\ (MetBadRecord /\ hist # << >>) => Recovered
  /\ (MetBadRecord /\ hist = << >>) =>
       /\ load_ret = "true"
       /\ ~file.exists
       /\ load_err = "missing log version entry; starting over"
       /\ Loaded = Survivors
  /\ (damage # "none" /\ lpc \in { "loaded", "write" }) => DenseIds
  /\ (damage # "none" /\ lpc = "loaded" /\ loads >= 2) =>
       /\ load_ret = "true"
       /\ load_err = ""
       /\ Loaded = [ entries_ |-> written.entries_, nodes_ |-> written.nodes_,
                     deps_ |-> written.deps_ ]
       /\ ids = written.ids

\* After a recovery that kept a path entry, a deps record with a new path
\* entry was appended and the file was loaded again.
C10_Witness ==
  /\ damage # "none" /\ lpc = "loaded" /\ loads >= 2
  /\ Len(blog.nodes_) >= 2
  /\ \E i \in DOMAIN blog.deps_ : blog.deps_[i].present
  /\ nops >= 2

\* Load has been given a file whose first record is missing, incomplete, no
\* version entry, or a version entry of an unsupported version.
MetBadHeader ==
  /\ lpc = "loaded" /\ loads = 1
  /\ \/ damage = "header"
     \/ damage = "cut" /\ hist = << >>

\* The warnings of Load about the first record.
HeaderErrors ==
  { "missing log version entry; starting over",
    "log version 0 too old (current 1); starting over",
    "log version 2 too new (current 1); starting over" }

\* C11: Load of an existing file whose first record is missing, incomplete,
\* not a version entry, or carries an unsupported version deletes the file,
\* leaves the log in memory empty, sets a warning about the version and
\* returns true; the log can then be opened for writing, which starts a new
\* file with a version entry.
C11_InvalidHeader ==
  /\ MetBadHeader =>
       /\ load_ret = "true"
       /\ load_err \in HeaderErrors
       /\ ~file.exists
       /\ blog = EmptyLog
       /\ ids = NoIds
  /\ (damage = "header" /\ lpc = "write" /\ loads = 1 /\ nops = 0) =>
       /\ file.exists
       /\ file.data = SizePrefix(2) \o << tagVersionEntry, kCurrentVersion >>

\* A log with records whose version entry was replaced by one of version 0
\* was loaded.
C11_Witness ==
  /\ MetBadHeader
  /\ damage = "header"
  /\ load_err = "log version 0 too old (current 1); starting over"
  /\ written.entries_ # << >>

\* The checksums of the path entries of a file, in file order.
RECURSIVE PathChecksums(_, _)
PathChecksums(data, offset) ==
  LET r == read_entry_data(data, offset) IN
  IF r.status # "kSuccess" THEN << >>
  ELSE (IF r.body[1] = tagPathEntry THEN << r.body[3] >> ELSE << >>)
       \o PathChecksums(data, r.next)

\* C12: in a file as the log writes it the i-th path entry (from 0) carries
\* the checksum ~i.  When Load meets a path entry whose checksum is not that
\* of its position, it stops, keeps what the records before it gave,
\* truncates the file to the start of that record and returns true.  After
\* every successful Load, nodes()[i]->id() = i for every i.
C12_PathChecksum ==
  /\ (damage = "none" /\ file.exists) =>
       LET sums == PathChecksums(file.data, 0) IN
       /\ Len(sums) = Len(blog.nodes_)
       /\ \A i \in DOMAIN sums : sums[i] = Not32(i - 1)
  /\ (lpc = "loaded" /\ loads = 1 /\ damage = "checksum") =>
       /\ load_ret = "true"
       /\ Loaded = Survivors
       /\ file.exists
       /\ Len(file.data) = cut
       /\ cut = LastEnd
  /\ (lpc = "loaded" /\ load_ret = "true") =>
       \A i \in DOMAIN blog.nodes_ : ids[blog.nodes_[i]] = i - 1

\* A log with two path entries to which another process had appended a path
\* entry with the checksum of an id already taken was loaded.
C12_Witness ==
  /\ lpc = "loaded" /\ loads = 1 /\ damage = "checksum"
  /\ Len(blog.nodes_) >= 2
  /\ load_err = "premature end of file; recovering"

(***************************************************************************)
(* Properties of recompaction (specification CompactSpec).                 *)
(***************************************************************************)
\* The bodies of the whole records of a file, in file order.
ScanStep(data, st) ==
  LET r == read_entry_data(data, st.offset) IN
  IF r.status # "kSuccess" THEN [ st EXCEPT !.done = TRUE ]
  ELSE [ offset |-> r.next, recs |-> Append(st.recs, r.body), done |-> FALSE ]

RECURSIVE ScanSteps(_, _, _)
ScanSteps(data, st, k) ==
  IF st.done THEN st
  ELSE IF k <= 1 THEN ScanStep(data, st)
  ELSE ScanSteps(data, ScanSteps(data, st, k \div 2), k - k \div 2)

Records(data) ==
  ScanSteps(data, [ offset |-> 0, recs |-> << >>, done |-> FALSE ],
            Len(data) \div size_prefix_size + 1).recs

RecordsOf(data, tag) == SelectSeq(Records(data), LAMBDA r : r[1] = tag)

\* The step is a recompaction.
Recompaction == before'.n # before.n

\* The body of the command record of an entry.
BuildRecord(e) ==
  << tagBuildEntry, PathIx(e.output), e.command_hash, e.start_time,
     e.end_time, e.mtime >>

\* What a recompaction does to the command entries: the entries of the
\* outputs not reported dead stay as they were last recorded, the others
\* go; the file holds one command record for each of them; loading it gives
\* those entries.
CommandsCompacted ==
  LET kept == DOMAIN blog.entries_ \ user.dead
      recs == RecordsOf(file'.data, tagBuildEntry)
  IN /\ blog.entries_ = written.entries_
     /\ DOMAIN blog'.entries_ = kept
     /\ \A o \in kept : blog'.entries_[o] = written.entries_[o]
     /\ Len(recs) = Cardinality(kept)
     /\ \A o \in kept : \E i \in DOMAIN recs : recs[i] = BuildRecord(blog.entries_[o])
     /\ \E r \in { Load(file') } :
          /\ r.ret = "true"
          /\ r.err = ""
          /\ r.L.mem.entries_ = blog'.entries_
          /\ r.L.file = file'

\* C14 as stated: every recompaction leaves the file shorter than it was.
C14_AsStated ==
  [][Recompaction => CommandsCompacted /\ Len(file'.data) < Len(file.data)]_vars

\* C14: after a recompaction the log holds exactly the command entries of the
\* outputs that IsPathDead does not report dead, with the hash, times and
\* mtime last recorded; the rewritten file holds one command record for each
\* and a Load of it yields the same entries.  The file is never longer than
\* before; it is shorter when Load had marked the log for recompaction or
\* when the entry of a dead output was dropped.
C14_Recompaction ==
  [][Recompaction =>
       /\ CommandsCompacted
       /\ Len(file'.data) <= Len(file.data)
       /\ (blog.needs_recompaction_ \/ DOMAIN blog.entries_ \cap user.dead # {})
            => Len(file'.data) < Len(file.data)]_vars

\* The log of 200 records for out and one for out2 was loaded, and opened
\* for writing by a user that reports out2 dead: one entry is left.
C14_Witness ==
  /\ before.n = 1
  /\ lpc = "write"
  /\ user.dead = { "out2" }
  /\ DOMAIN before.entries_ = { "out", "out2" }
  /\ before.size = Len(SizePrefix(2)) + 2
                   + (2 * kMinCompactionEntryCount + 1) * (size_prefix_size + 6)
  /\ DOMAIN blog.entries_ = { "out" }
  /\ blog.entries_["out"].end_time = 2 * kMinCompactionEntryCount
  /\ Len(file.data) = Len(SizePrefix(2)) + 2 + size_prefix_size + 6

\* The nodes that have a deps record in a log, and the nodes those records
\* refer to.
WithDeps(mem, idmap) ==
  { n \in Paths : GetDeps([ mem |-> mem, ids |-> idmap ], n).present }

Referenced(mem, idmap, N) ==
  N \cup UNION { Range(GetDeps([ mem |-> mem, ids |-> idmap ], n).nodes) : n \in N }

\* C15: Recompact keeps the deps record, with its mtime and its inputs in
\* their order, of every node that is deps-live and drops the deps record of
\* every other node.  Afterwards the ids are dense: nodes()[n->id()] == n for
\* every node that has an id, the nodes with an id are those the kept
\* records refer to, and every node known before that is no longer referred
\* to has id -1.  The new file holds one path record per node with an id
\* and one deps record per kept record, and Load reads the same log from it.
C15_RecompactDeps ==
  [][Recompaction =>
       LET kept == WithDeps(blog, ids) \cap user.live
           referenced == Referenced(blog, ids, kept)
       IN /\ WithDeps(blog', ids') = kept
          /\ \A n \in kept :
               GetDeps([ mem |-> blog', ids |-> ids' ], n) = GetDeps(LogState, n)
          /\ \A i \in DOMAIN blog'.nodes_ : ids'[blog'.nodes_[i]] = i - 1
          /\ \A n \in Paths :
               ids'[n] >= 0 =>
                 /\ ids'[n] < Len(blog'.nodes_)
                 /\ blog'.nodes_[ids'[n] + 1] = n
          /\ { n \in Paths : ids'[n] >= 0 } = referenced
          /\ \A n \in Range(blog.nodes_) \ referenced : ids'[n] = -1
          /\ Len(RecordsOf(file'.data, tagPathEntry)) = Cardinality(referenced)
          /\ Len(RecordsOf(file'.data, tagDepsEntry)) = Cardinality(kept)
          /\ \E r \in { Load(file') } :
               /\ r.ret = "true"
               /\ r.L.mem.nodes_ = blog'.nodes_
               /\ r.L.mem.deps_ = blog'.deps_
               /\ r.L.ids = ids']_vars

\* A log with deps of out (foo.h, bar.h) and of out2 (out, foo.h) was
\* recompacted while only out2 was deps-live: the deps of out2 are kept under
\* new ids, those of out are gone, and bar.h has no id any more.
C15_Witness ==
  /\ before.n = 1
  /\ user.live = { "out2" }
  /\ before.nodes_ = << "out", "foo.h", "bar.h", "out2" >>
  /\ before.deps_[1].present
  /\ blog.nodes_ = << "out2", "out", "foo.h" >>
  /\ GetDeps(LogState, "out2").nodes = << "out", "foo.h" >>
  /\ ~GetDeps(LogState, "out").present
  /\ ids["bar.h"] = -1

\* The number of distinct values of field f among records.
Distinct(recs, f) == Cardinality({ recs[i][f] : i \in DOMAIN recs })

\* What the records of a file say about recompaction.
Marked(data) ==
  LET commands == RecordsOf(data, tagBuildEntry)
      deps == RecordsOf(data, tagDepsEntry)
      version == RecordsOf(data, tagVersionEntry)[1][2]
  IN \/ version < kCurrentVersion
     \/ Len(commands) > 100 /\ Len(commands) > 3 * Distinct(commands, 2)
     \/ Len(deps) > 1000 /\ Len(deps) > 3 * Distinct(deps, 2)

LoadedToTheEnd ==
  lpc = "loaded" /\ load_ret = "true" /\ load_err = "" /\ file.exists

\* C16: after a Load that read the file to its end without error the log is
\* marked for recompaction exactly when the version of the file is older
\* than the current one, or the file has more than 100 command records and
\* more than 3 times as many command records as outputs, or more than 1000
\* deps records and more than 3 times as many deps records as output ids.
\* The next OpenForWrite recompacts a marked log, and only a marked one, and
\* leaves the log open for appending to the rewritten file.
C16_NeedsRecompaction ==
  /\ [](LoadedToTheEnd => (blog.needs_recompaction_ <=> Marked(file.data)))
  /\ [][(LoadedToTheEnd /\ lpc' = "write") =>
          /\ Recompaction <=> blog.needs_recompaction_
          /\ blog'.log_file_
          /\ blog.needs_recompaction_ =>
               /\ Len(file'.data) < Len(file.data)
               /\ Len(RecordsOf(file'.data, tagBuildEntry))
                    = Distinct(RecordsOf(file'.data, tagBuildEntry), 2)
               /\ Len(RecordsOf(file'.data, tagDepsEntry))
                    = Distinct(RecordsOf(file'.data, tagDepsEntry), 2)
          /\ ~blog.needs_recompaction_ => file' = file]_vars

\* A log with 1003 deps records for 334 outputs was loaded and is marked.
C16_Witness ==
  /\ LoadedToTheEnd
  /\ blog.needs_recompaction_
  /\ Len(blog.deps_) = MaxBulk
  /\ Len(RecordsOf(file.data, tagDepsEntry)) = kCompactionRatio * MaxBulk + 1
  /\ blog.entries_ = << >>

(***************************************************************************)
(* Further properties of the log (specification LogSpec).                  *)
(***************************************************************************)
Header == SizePrefix(2) \o << tagVersionEntry, kCurrentVersion >>

\* The step is a call of OpenForWrite.
Opening == lpc # "write" /\ lpc' = "write"

\* C17: OpenForWrite writes the version entry exactly when the file is empty
\* (or absent) as it is opened, and writes nothing otherwise; so while the
\* log is open for writing, after any number of OpenForWrite / Record* /
\* Close cycles, the file begins with the version entry and holds no other.
C17_OneHeader ==
  /\ [][Opening =>
          /\ Len(file.data) = 0 => file'.data = Header
          /\ Len(file.data) # 0 => file'.data = file.data
          /\ file'.exists]_vars
  /\ [](lpc = "write" =>
          /\ SubSeq(file.data, 1, Len(Header)) = Header
          /\ Len(RecordsOf(file.data, tagVersionEntry)) = 1)

\* The log is open for writing for the third time, on a file with records.
C17_Witness ==
  /\ lpc = "write"
  /\ loads = 2
  /\ damage = "none"
  /\ Len(Records(file.data)) >= 3
  /\ Len(RecordsOf(file.data, tagVersionEntry)) = 1

\* The last of the records whose second field (output, or output id) is key.
LastOf(recs, key) ==
  recs[CHOOSE i \in DOMAIN recs :
         /\ recs[i][2] = key
         /\ \A j \in DOMAIN recs : recs[j][2] = key => j <= i]

\* C18: after Load the log has, for every output with command records in
\* the file, one entry, with the fields of the last of them in file order;
\* and for every output id with deps records in the file one deps record,
\* with the mtime and the inputs of the last of them.
C18_LatterWins ==
  (lpc = "loaded" /\ load_ret = "true" /\ file.exists) =>
    LET commands == RecordsOf(file.data, tagBuildEntry)
        deps == RecordsOf(file.data, tagDepsEntry)
        paths == RecordsOf(file.data, tagPathEntry)
    IN /\ DOMAIN blog.entries_
            = { AllPaths[commands[i][2]] : i \in DOMAIN commands }
       /\ \A o \in DOMAIN blog.entries_ :
            BuildRecord(blog.entries_[o]) = LastOf(commands, PathIx(o))
       /\ \A i \in DOMAIN deps : deps[i][2] < Len(blog.deps_)
       /\ \A id \in 0 .. Len(blog.deps_) - 1 :
            LET d == blog.deps_[id + 1] IN
            /\ d.present <=> \E i \in DOMAIN deps : deps[i][2] = id
            /\ d.present =>
                 LET r == LastOf(deps, id) IN
                 /\ d.mtime = r[3]
                 /\ d.nodes = [ k \in 1 .. Len(r) - 3 |->
                                  AllPaths[paths[r[3 + k] + 1][2]] ]

\* A file with two command records for out was loaded: the entry of out is
\* that of the second.
C18_Witness ==
  /\ lpc = "loaded" /\ load_ret = "true" /\ file.exists
  /\ LET commands == RecordsOf(file.data, tagBuildEntry) IN
     /\ Len(commands) = 2
     /\ commands[1][2] = PathIx("out") /\ commands[2][2] = PathIx("out")
     /\ commands[1][3] # commands[2][3]
     /\ blog.entries_["out"].command_hash = commands[2][3]

\* What C19 says of one call RecordDeps(node, mtime, nodes) that takes the
\* log from L to R.
RecordDepsContract(L, R, node, mtime, nodes) ==
  LET new == { n \in { node } \cup Range(nodes) : L.ids[n] < 0 }
      stored == GetDeps(L, node)
      same == /\ new = {}
              /\ stored.present
              /\ stored.mtime = mtime
              /\ stored.nodes = nodes
  IN IF same
     THEN R.file = L.file /\ R.mem = L.mem /\ R.ids = L.ids
     ELSE \A added \in { Records(SubSeq(R.file.data, Len(L.file.data) + 1,
                                        Len(R.file.data))) } :
            LET k == Cardinality(new) IN
            /\ SubSeq(R.file.data, 1, Len(L.file.data)) = L.file.data
            /\ Len(R.file.data) = Len(L.file.data)
                 + SumOver([ i \in DOMAIN added |->
                              size_prefix_size + Len(added[i]) ], DOMAIN added)
            /\ Len(added) = k + 1
            /\ \A i \in 1 .. k : added[i][1] = tagPathEntry
            /\ { AllPaths[added[i][2]] : i \in 1 .. k } = new
            /\ added[k + 1] = << tagDepsEntry, R.ids[node], mtime >>
                                \o [ i \in 1 .. Len(nodes) |-> R.ids[nodes[i]] ]
            /\ \A n \in new : R.ids[n] >= 0
            /\ R.ids = [ n \in new |-> R.ids[n] ] @@ L.ids
            /\ GetDeps(R, node)
                 = [ present |-> TRUE, mtime |-> mtime, nodes |-> nodes ]

\* C19: whenever the log is open for writing, each call of RecordDeps that
\* can be made appends nothing and leaves the log in memory as it is when
\* the node and its inputs have ids and the deps stored for the node have the
\* same mtime and the same inputs in the same order; otherwise it appends one
\* path record for each node without an id, then one deps record, and stores
\* the deps.
C19_RecordDeps ==
  lpc = "write" =>
    \A d \in DepsChoices :
      \A R \in { RecordDeps(LogState, d[1], d[2], d[3]) } :
        RecordDepsContract(LogState, R, d[1], d[2], d[3])

\* RecordDeps was called twice with the same deps of out: the file holds the
\* version entry, one path record and one deps record.
C19_Witness ==
  /\ lpc = "write"
  /\ nops = 2
  /\ loads = 0
  /\ blog.nodes_ = << "out" >>
  /\ \A recs \in { Records(file.data) } :
       /\ Len(recs) = 3
       /\ recs[3][1] = tagDepsEntry

(***************************************************************************)
(* Properties of the graph (specification StateSpec).                      *)
(***************************************************************************)
\* The edges that list the node among their outputs.
Producers(node) == { e \in 1 .. edges_.n : node \in Range(edges_.outs[e]) }

\* C20: a call of AddOut for a node that has a producing edge returns false
\* and leaves the outputs of the edge, the in_edge of the node and the rest
\* of the State as they are; a call for a node without one returns true,
\* appends the node to the outputs of the edge and makes the edge its
\* in_edge.  So every node is listed, once, among the outputs of at most one
\* edge, in_edge is that edge, and it stays the first edge that claimed the
\* node.
C20_AtMostOneInEdge ==
  /\ [][last_out' # last_out =>
          LET c == last_out' IN
          IF c.path \in DOMAIN in_edge_ /\ in_edge_[c.path] # 0
          THEN /\ ~c.ret
               /\ edges_' = edges_
               /\ in_edge_' = in_edge_
               /\ out_edges_' = out_edges_
          ELSE /\ c.ret
               /\ edges_'.outs = [ edges_.outs EXCEPT ![c.edge] = Append(@, c.path) ]
               /\ in_edge_'[c.path] = c.edge]_vars
  /\ [](\A node \in DOMAIN in_edge_ :
          /\ Cardinality(Producers(node)) <= 1
          /\ \A e \in Producers(node) :
               /\ in_edge_[node] = e
               /\ Cardinality({ i \in DOMAIN edges_.outs[e] :
                                  edges_.outs[e][i] = node }) = 1
          /\ Producers(node) = {} => in_edge_[node] = 0)
  /\ [][\A node \in DOMAIN in_edge_ :
          in_edge_[node] # 0 => in_edge_'[node] = in_edge_[node]]_vars

\* A second edge asked for the output of the first and was refused.
C20_Witness ==
  /\ ~last_out.ret
  /\ edges_.n >= 2
  /\ in_edge_[last_out.path] = 1
  /\ last_out.edge = 2
  /\ edges_.outs[2] = << >>

(***************************************************************************)
(* Properties of the command line (specification Spec).                    *)
(***************************************************************************)
\* The step in which Build stops because the command runner reported an
\* interrupt: WaitForCommand returned false or a result with
\* ExitInterrupted, so no command was started or finished by the step.
InterruptStep ==
  /\ pc = "build"
  /\ pc' = "done"
  /\ build_result' = "false"
  /\ pending_commands > 0
  /\ pending_commands' = pending_commands
  /\ started' = started

\* C25: the exit status of the build command is 2 exactly when Build stopped
\* because the command runner reported an interrupt, 1 for every other
\* failure of the build or of the collection of the targets, and 0 when the
\* build succeeded or there was no work to do.
C25_ExitStatus ==
  [][(pc # "done" /\ pc' = "done") =>
       RunBuild' = IF InterruptStep THEN 2
                   ELSE IF build_result' = "false" THEN 1
                   ELSE IF build_result' = "none" /\ err' # "no work to do"
                   THEN 1
                   ELSE 0]_vars

\* The build was interrupted: Build has returned with the error of an
\* interrupt reported by the command runner.
Interrupted == pc = "done" /\ err = "interrupted by user"

\* The edges started whose command WaitForCommand has not returned yet.
StillActive == { e \in active : reaped[e] = "none" }

\* C26: when a build is interrupted, Cleanup has the runner abort its
\* children and goes through the outputs of every edge that was started and
\* is still active.  An output whose Stat succeeded is removed when its
\* timestamp on disk differs from the one recorded for the node or when the
\* edge has a depfile, and is left in place otherwise; the depfile of such an
\* edge is removed as well; nothing else is removed.  A Stat error is logged
\* and does not keep Cleanup from handling the output with what Stat
\* returned, nor from handling the other outputs.
C26_Cleanup ==
  Interrupted =>
    /\ cleanup.n = 1
    /\ running_ = << >>
    /\ cleanup.active_edges = StillActive
    /\ DOMAIN cleanup.stat
         = UNION { Range(G.outs[e]) : e \in StillActive }
    /\ \A e \in StillActive :
         /\ \A o \in Range(G.outs[e]) :
              /\ cleanup.stat[o] # -1 =>
                   (o \in cleanup.removed
                      <=> \/ e \in G.deps
                          \/ cleanup.stat[o] # mtime_(o))
              /\ cleanup.stat[o] = -1 =>
                   o \in cleanup.logged /\ o \in cleanup.removed
         /\ e \in G.deps => G.outs[e][1] \o ".d" \in cleanup.removed
    /\ cleanup.logged \subseteq DOMAIN cleanup.stat
    /\ \A x \in cleanup.removed :
         \E e \in StillActive :
           \/ x \in Range(G.outs[e])
           \/ e \in G.deps /\ x = G.outs[e][1] \o ".d"

\* An interrupt while the command of an edge with two outputs and no depfile
\* ran: the output it had modified was removed, the other was found
\* unmodified and left in place.
C26_Witness ==
  /\ Interrupted
  /\ g = 2
  /\ cleanup.active_edges = { 1 }
  /\ cleanup.stat["mid"] = mtime_("mid")
  /\ cleanup.stat["mid2"] = mtime_("mid2") + 1
  /\ cleanup.removed = { "mid2" }

(***************************************************************************)
(* Properties of the parser (specification ParseSpec).                     *)
(***************************************************************************)
\* VerifyGraph of src/src/tests/test.cc on the State.
EdgeSetOfNodes ==
  ({ in_edge_[x] : x \in DOMAIN in_edge_ } \ { 0 })
    \cup UNION { Range(out_edges_[x]) : x \in DOMAIN out_edges_ }
VerifyGraph ==
  /\ \A e \in 1 .. edges_.n :
       /\ edges_.outs[e] # << >>
       /\ \A x \in Range(edges_.ins[e]) : e \in Range(out_edges_[x])
       /\ \A x \in Range(edges_.outs[e]) : in_edge_[x] = e
  /\ EdgeSetOfNodes = 1 .. edges_.n

\* The outputs of the last statement that had a producing edge when their
\* turn came: those of an earlier edge and those the statement repeats.
IsDuplicate(k) ==
  LET path == parse.stmt.outs[k] IN
  \/ path \in DOMAIN parse.before.in_edge_ /\ parse.before.in_edge_[path] # 0
  \/ \E j \in 1 .. k - 1 : parse.stmt.outs[j] = path
Duplicates == { k \in DOMAIN parse.stmt.outs : IsDuplicate(k) }

\* C21: as long as every statement parsed so far succeeded, the graph passes
\* VerifyGraph: every edge of State has an output, is among the out_edges of
\* each of its inputs and is the in_edge of each of its outputs, and the
\* edges the nodes refer to are exactly the edges of State; a statement
\* whose outputs are all duplicates adds no edge and no out_edges entry.
C21_VerifyGraph ==
  parse.ret =>
    /\ VerifyGraph
    /\ (parse.n > 0 /\ Duplicates = DOMAIN parse.stmt.outs) =>
         /\ parse.edge = 0
         /\ edges_.n = parse.before.edges_.n
         /\ edges_ = parse.before.edges_
         /\ \A x \in DOMAIN parse.before.out_edges_ :
              out_edges_[x] = parse.before.out_edges_[x]

\* The second statement names inputs and produces only what the first one
\* produces: it succeeded and left one edge.
C21_Witness ==
  /\ parse.ret
  /\ parse.n = 2
  /\ parse.options.dupe_edge_action_ = kDupeEdgeActionWarn
  /\ Duplicates = DOMAIN parse.stmt.outs
  /\ parse.stmt.ins # << >>
  /\ edges_.n = 1

\* C22: after every successful parse, every edge has implicit_outs_ at most
\* the number of its outputs, and implicit_deps_ plus order_only_deps_ at
\* most the number of its inputs, also when duplicate outputs were dropped
\* and when a self-referencing input was filtered out of a phony edge.
C22_EdgeRanges ==
  parse.ret =>
    \A e \in 1 .. edges_.n :
      /\ parse.P.implicit_outs_[e] <= Len(edges_.outs[e])
      /\ parse.P.implicit_deps_[e] + edges_.oo[e] <= Len(edges_.ins[e])

\* The last statement is "build x: phony ... x ..." with x not produced by
\* an earlier statement: a phony edge that lists its only output among its
\* explicit or order-only inputs.
SelfReference ==
  /\ parse.n > 0
  /\ parse.stmt.rule_name = "phony"
  /\ Len(parse.stmt.outs) = 1
  /\ parse.stmt.outs[1] # ""
  /\ Duplicates = {}
  /\ parse.stmt.implicit_outs = 0
  /\ parse.stmt.implicit = 0
  /\ parse.stmt.outs[1] \in Range(parse.stmt.ins)
  /\ "" \notin Range(parse.stmt.ins)

\* The statement "build x: phony x".
BuildXPhonyX ==
  /\ SelfReference
  /\ parse.stmt.ins = parse.stmt.outs
  /\ parse.stmt.order_only = 0

Reached(k) ==
  /\ parse.n > 0
  /\ parse.stmt.rule_name \in { "phony", "cc" }
  /\ parse.stmt.pool_name \in { "", "console" }
  /\ \A j \in 1 .. k : parse.stmt.outs[j] # ""
FirstDuplicate == CHOOSE k \in Duplicates : \A j \in Duplicates : k <= j

\* The implicit outputs of the last statement: the last implicit_outs ones.
ImplicitOuts ==
  { k \in DOMAIN parse.stmt.outs :
      k > Len(parse.stmt.outs) - parse.stmt.implicit_outs }

\* The outputs of the last statement without the duplicates.
Retained ==
  SelectSeq([ k \in DOMAIN parse.stmt.outs |->
                IF k \in Duplicates THEN "" ELSE parse.stmt.outs[k] ],
            LAMBDA x : x # "")

\* C24: when a build statement names an output that already has a producing
\* edge, then under dupbuild=err the parse fails with "multiple rules
\* generate <path>", and under dupbuild=warn the parse goes on: the
\* duplicate stays with its first producer and is left out of the new edge,
\* whose implicit_outs_ is the number of implicit outputs it retained.
C24_DuplicateOutput ==
  (Duplicates # {} /\ Reached(FirstDuplicate)) =>
    IF parse.options.dupe_edge_action_ = kDupeEdgeActionError
    THEN /\ ~parse.ret
         /\ parse.err = "multiple rules generate "
                          \o parse.stmt.outs[FirstDuplicate]
                          \o " [-w dupbuild=err]"
    ELSE Reached(Len(parse.stmt.outs)) =>
           LET e == parse.before.edges_.n + 1 IN
           /\ parse.err \notin { "empty path" } =>
                parse.ret = ~(parse.stmt.deps_type # "" /\ Len(Retained) > 1)
           /\ \A k \in Duplicates :
                LET path == parse.stmt.outs[k] IN
                /\ path \in DOMAIN parse.before.in_edge_
                     /\ parse.before.in_edge_[path] # 0
                     => in_edge_[path] = parse.before.in_edge_[path]
                /\ Cardinality({ f \in 1 .. edges_.n :
                                   path \in Range(edges_.outs[f]) }) = 1
           /\ IF Retained = << >>
              THEN edges_.n = parse.before.edges_.n
              ELSE /\ edges_.n = e
                   /\ edges_.outs[e] = Retained
                   /\ parse.P.implicit_outs_[e]
                        = Cardinality(ImplicitOuts \ Duplicates)

\* Under dupbuild=warn an edge kept its explicit output and neither of its
\* two implicit outputs, which belong to the edge before it or repeat.
C24_Witness ==
  /\ parse.ret
  /\ parse.n = 2
  /\ parse.options.dupe_edge_action_ = kDupeEdgeActionWarn
  /\ Len(parse.stmt.outs) = 3
  /\ parse.stmt.implicit_outs = 2
  /\ Cardinality(Duplicates) = 2
  /\ 2 \in Duplicates
  /\ edges_.n = 2
  /\ parse.P.implicit_outs_[2] = 0

(***************************************************************************)
(* Properties of the log user (specification DeadSpec).                    *)
(***************************************************************************)
\* C27: NinjaMain::IsPathDead answers true only for a path that no edge of
\* the loaded manifest produces and that does not exist on disk; a path an
\* edge of the manifest produces is never reported dead.
C27_IsPathDead ==
  (path_dead.n > 0 /\ path_dead.ret) =>
    /\ Producers(path_dead.s) = {}
    /\ path_dead.mtime = 0

(***************************************************************************)
(* Properties of the path manager (specification PathSpec).                *)
(***************************************************************************)
\* C28: normalizing is idempotent: NormalizePath of a path that NormalizePath
\* returned, with the same base directory, returns it unchanged.
C28_Idempotent ==
  pm.op = "NormalizePath" =>
    NormalizePath(pm.base_dir_, pm.ret) = pm.ret

\* The string with t inserted in front of position i.
InsertAt(s, i, t) == SubSeq(s, 1, i - 1) \o t \o SubSeq(s, i, Len(s))

\* Where the components of a path start, and where its separators are.
ComponentStarts(s) ==
  { i \in 1 .. Len(s) : ~IsSep(s, i) /\ (i = 1 \/ IsSep(s, i - 1)) }

Separators(s) == { i \in 1 .. Len(s) : IsSep(s, i) }

\* A path with a "." component inserted, or "name/..", in front of one of
\* its components, or with one of its separators repeated.
Respellings(s) ==
  { InsertAt(s, i, "./") : i \in ComponentStarts(s) }
    \cup { InsertAt(s, i, "x/../") : i \in ComponentStarts(s) }
    \cup { InsertAt(s, i, "/") : i \in Separators(s) }

\* PathEqual answers the same for the two orders of its arguments.
Symmetric ==
  pm.ret = PathEqual(pm.base_dir_, pm.p2, pm.p1)

\* The respellings of a path are equal to it.
RespellingsEqual ==
  \A q \in Respellings(pm.p1) : PathEqual(pm.base_dir_, pm.p1, q)

\* With an absolute base directory a relative path equals base/path.
BaseJoined ==
  (~is_relative(pm.base_dir_) /\ is_relative(pm.p1)) =>
    PathEqual(pm.base_dir_, pm.p1, pm.base_dir_ \o "/" \o pm.p1)

\* Paths whose normalized component sequences differ are unequal.
DifferentUnequal ==
  Elements(NormalizePath(pm.base_dir_, pm.p1))
    # Elements(NormalizePath(pm.base_dir_, pm.p2)) => ~pm.ret

\* C29: PathEqual is symmetric, a path equals its respellings with a "."
\* component, a repeated separator or "name/.." inserted, with an absolute
\* base directory a relative path equals base/path, and paths whose
\* normalized component sequences differ are unequal.
C29_PathEqual ==
  pm.op = "PathEqual" =>
    /\ Symmetric
    /\ RespellingsEqual
    /\ BaseJoined
    /\ DifferentUnequal

\* Two paths PathEqual holds equal have the same PathHash.
HashAgrees ==
  (pm.op = "PathHash" /\ PathEqual(pm.base_dir_, pm.p1, pm.p2)) =>
    pm.ret[1] = pm.ret[2]

\* GetId and LookupId answer with the id registered for a path that is
\* PathEqual to the one asked for, whatever its spelling.
SameId ==
  pm.op \in { "GetId", "LookupId" } =>
    \A i \in DOMAIN pm.path_index_ :
      PathEqual(pm.base_dir_, pm.path_index_[i].first, pm.arg[1]) =>
        pm.ret = pm.path_index_[i].second

\* C30: paths that are PathEqual have the same PathHash, those whose
\* normalized form is empty included, so GetId returns the same id for
\* every spelling of a path and LookupId finds an id registered under
\* another spelling.
C30_PathHash == HashAgrees /\ SameId

NodePaths == DOMAIN in_edge_

C32_ScheduledOnce ==
  /\ \A e \in DOMAIN want_ :
       want_[e] = "kWantToFinish" => ScheduleWork(PlanState, e) = PlanState
  /\ \A i, j \in DOMAIN started : started[i] = started[j] => i = j
  /\ \A e \in ready_ : \A q \in Pools : e \notin delayed_[q]

\* The graph where edge 2 is listed twice among the consumers of "a" and
\* shares the order-only input "s" with edge 4: edge 1 has finished, which
\* scheduled edge 2 twice in a row, edge 2 has run and failed and is still
\* kWantToFinish, and edge 4 waits for it.
C32_Witness ==
  /\ g = 3
  /\ Cardinality({ k \in DOMAIN out_edges("a") : out_edges("a")[k] = 2 }) = 2
  /\ reaped[1] = "ExitSuccess"
  /\ Cardinality({ i \in DOMAIN started : started[i] = 2 }) = 1
  /\ reaped[2] = "ExitFailure"
  /\ 2 \in DOMAIN want_ /\ want_[2] = "kWantToFinish"

\* The edges that were admitted into ready_ and have not been passed to
\* EdgeFinished: those in ready_, those whose command is running or was
\* reaped by a FinishCommand that returned before EdgeFinished, and the
\* edge whose StartEdge failed.
InHand ==
  ready_ \cup active
    \cup { e \in Range(started) :
             ~is_phony(e) /\ e \notin active /\ reaped[e] = "none" }

\* C33: in every pool of depth > 0, current_use_ is the sum of the weights
\* of the edges of the pool that were admitted into ready_ and have not
\* been passed to EdgeFinished, so an edge is charged once and released
\* once, whether its command succeeded or failed, and an edge that is
\* kWantNothing is finished without a release; current_use_ is never
\* negative and is 0 in every pool when Build has returned true.
C33_PoolAccounting ==
  /\ \A q \in Pools :
       /\ current_use_[q] >= 0
       /\ depth_[q] > 0 =>
            current_use_[q] =
              SumOver([ e \in Edges |-> weight(e) ],
                      { e \in InHand : G.pool[e] = q })
       /\ build_result = "true" => current_use_[q] = 0
  /\ [][\A e \in DOMAIN want_ :
          (/\ want_[e] = "kWantNothing"
           /\ e \notin DOMAIN want_'
           /\ delayed_[G.pool[e]] = {}) =>
            current_use_'[G.pool[e]] >= current_use_[G.pool[e]]]_vars

\* In the graph with the console pool, edge 2 of the pool was made
\* kWantNothing by CleanNode and finished without having been charged,
\* after which edge 4 of the pool was charged, ran and was released, and
\* Build has returned true.
C33_Witness ==
  /\ g = 3
  /\ build_result = "true"
  /\ 2 \notin Range(started) /\ outputs_ready_[2]
  /\ reaped[4] = "ExitSuccess"
  /\ current_use_["console"] = 0

\* C34: a pool has delayed edges only while it is full: when delayed_ is
\* not empty the pool is bounded and the first delayed edge does not fit;
\* and the EdgeFinished of a command that failed releases its weight and
\* moves a delayed edge of its pool into ready_ in the same step.
C34_NoAdmissionLost ==
  /\ [](\A q \in Pools :
          delayed_[q] # {} =>
            /\ depth_[q] > 0
            /\ current_use_[q] + weight(FirstDelayed(delayed_[q])) > depth_[q])
  /\ [][\A e \in Edges :
          (/\ reaped[e] = "none" /\ reaped'[e] = "ExitFailure"
           /\ e \notin active'
           /\ delayed_[G.pool[e]] # {}) =>
            /\ FirstDelayed(delayed_[G.pool[e]]) \in ready_'
            /\ delayed_'[G.pool[e]] =
                 delayed_[G.pool[e]] \ { FirstDelayed(delayed_[G.pool[e]]) }]_vars

\* The command of an edge of the pool of depth 2 has failed while edges of
\* the pool were delayed: one of them took its place and another is still
\* delayed behind the two edges that fill the pool.
C34_Witness ==
  /\ \E e \in Edges : G.pool[e] = "p" /\ reaped[e] = "ExitFailure"
  /\ delayed_["p"] # {}
  /\ Cardinality({ e \in ready_ \cup active : G.pool[e] = "p" }) = 2
  /\ \E e \in ready_ : G.pool[e] = "p"

\* C35: when edges leave the delayed set of a pool, each of them is heavier
\* than every edge that stays delayed, or weighs the same and was passed to
\* DelayEdge before it.
C35_AdmissionOrder ==
  [][LET pos(e) == CHOOSE i \in DOMAIN delay_order : delay_order[i] = e IN
     \A q \in Pools :
       \A e \in delayed_[q] \ delayed_'[q] :
         \A f \in delayed_[q] \cap delayed_'[q] :
           \/ weight(e) > weight(f)
           \/ weight(e) = weight(f) /\ pos(e) < pos(f)]_vars

(***************************************************************************)
(* Properties of the builds whose commands all succeed (specification      *)
(* SuccessSpec).                                                           *)
(***************************************************************************)
\* C36: when every started command succeeds, Build terminates and returns
\* true; it takes from FindWork only edges that are wanted, each at most
\* once, and when it returns no edge is wanted any more and every started
\* edge is finished; between Plan operations no kWantNothing edge has all
\* its inputs ready, so none keeps a consumer waiting; and Build never
\* ends with "stuck [this is a bug]".
C36_BuildTerminates ==
  /\ (pc = "build") ~> (pc = "done" /\ build_result = "true")
  /\ [](err # "stuck [this is a bug]")
  /\ [](\A e \in DOMAIN want_ :
          want_[e] = "kWantNothing" => ~AllInputsReady(PlanState, e))
  /\ [](build_result = "true" =>
          /\ wanted_edges_ = 0
          /\ \A e \in DOMAIN want_ : want_[e] = "kWantNothing"
          /\ \A i, j \in DOMAIN started : started[i] = started[j] => i = j
          /\ \A i \in DOMAIN started : outputs_ready_[started[i]]
          /\ active = {} /\ ready_ = {}
          /\ \A q \in Pools : delayed_[q] = {})
  /\ [][Len(started') > Len(started) =>
          /\ started'[Len(started')] \in DOMAIN want_
          /\ want_[started'[Len(started')]] = "kWantToFinish"]_vars

\* In the restat chain, CleanNode made edge 2 unwanted; it was finished
\* without being started when its input became ready, which let edge 4,
\* whose order-only input it makes, start and finish, and Build returned
\* true.
C36_Witness ==
  /\ g = 2
  /\ build_result = "true"
  /\ 2 \notin Range(started) /\ outputs_ready_[2]
  /\ reaped[1] = "ExitSuccess"
  /\ reaped[4] = "ExitSuccess"

(***************************************************************************)
(* Properties of the lexer errors in build statements (specification       *)
(* LexSpec).                                                               *)
(***************************************************************************)
\* C37: whenever the lexer reports an error while reading a path of a build
\* statement, in any of the five loops, ParseEdge returns false and so does
\* the enclosing Parse: no manifest is accepted after a reported lexer error.
C37_LexerErrorRejects ==
  (parse.lexed.at # "none" /\ parse.err = parse.lexed.msg)
    => ~parse.ret /\ parse.returned = "false"

(***************************************************************************)
(* Properties of the dry run (specification Spec).                         *)
(***************************************************************************)
\* C38: a dry-run build has no effects: Build writes no response file and
\* removes no file, Cleanup removes nothing and nothing reaches the log
\* file, while every started command is reported successful, in the order
\* in which the commands were started.
C38_DryRunNoEffects ==
  config_.dry_run =>
    /\ disk = {}
    /\ cleanup.removed = {}
    /\ file = NoFile /\ hist = << >>
    /\ \A e \in Edges : reaped[e] \in { "none", "ExitSuccess" }
    /\ LET cmds == SelectSeq(started, LAMBDA e : ~is_phony(e))
       IN \A i \in DOMAIN cmds :
            reaped[cmds[i]] # "none" =>
              \A j \in 1 .. i : reaped[cmds[j]] # "none"

(***************************************************************************)
(* Properties of the manifest loop (specification MainSpec).               *)
(***************************************************************************)
\* C39: the manifest loop is bounded: no front end starts a cycle after the
\* 100th, and a front end that leaves the loop with the manifest still
\* dirty reports it and exits with a status other than zero.
C39_RegenerationBounded ==
  /\ main.cycle <= kCycleLimit + 1
  /\ main.cycle > kCycleLimit /\ main.status # -1 =>
       main.msg = "still dirty" /\ main.status # 0

(***************************************************************************)
(* Properties of ".." in the path manager (specification PathSpec).        *)
(***************************************************************************)
\* The loop over the elements of a path in which ".." pops the component
\* before it unless there is none or it is ".." itself.
RECURSIVE KeepDotDot(_, _, _)
KeepDotDot(components, elements, i) ==
  IF i > Len(elements) THEN components
  ELSE LET c == elements[i] IN
       IF c = ".." /\ components # << >>
          /\ components[Len(components)] # ".."
       THEN KeepDotDot(SubSeq(components, 1, Len(components) - 1),
                       elements, i + 1)
       ELSE IF c = "."
       THEN KeepDotDot(components, elements, i + 1)
       ELSE KeepDotDot(components \o << c >>, elements, i + 1)

\* C40: NormalizePath cancels a ".." only against a component before it that
\* is not ".." itself, a ".." with nothing before it or with ".." before it
\* is kept, and "../../a" is equal neither to "a" nor to "../a".
C40_DotDotKept ==
  /\ pm.op = "NormalizePath" =>
       pm.ret = JoinComponents("",
                  KeepDotDot(IF is_relative(pm.p1)
                             THEN Elements(pm.base_dir_) ELSE << >>,
                             Elements(pm.p1), 1), 1)
  /\ (pm.op = "PathEqual" /\ pm.p1 = "../../a" /\ pm.p2 \in { "a", "../a" })
       => ~pm.ret

====
